---- MODULE Spec2Model ----
(***************************************************************************)
(* The EFS service broker (package efsbroker): the asynchronous create and *)
(* destroy workflows of a filesystem and its mount target, the shared      *)
(* instance map, the broker mutex and the state file.                      *)
(*                                                                         *)
(* Foreground handlers (Provision, Deprovision, Bind, Unbind,              *)
(* LastOperation) and background goroutines (createMountTargets,           *)
(* deprovision) are processes; a step of the model is the code between two *)
(* points where a goroutine can block: mutex.Lock, a call of the remote    *)
(* EFS API, a sleep.                                                       *)
(***************************************************************************)
EXTENDS Integers, Sequences, FiniteSets, TLC

\* ------------------------------------------------------------------ bounds
\* Number of Provision/Deprovision requests the platform issues in a run.
\* Request k runs background task k, and filesystem k is the one request k
\* creates.
MaxRequests == 3
\* Number of requests in a run of the reliable environment (LiveSpec).
MaxLiveRequests == 2
\* Number of failures in a run: remote calls or state file writes that fail
\* transiently, and crashes of the broker process.
MaxFaults == 1
\* The instance ids the platform uses.
Ids == {"fs-1"}
Reqs == 1..MaxRequests
\* The two plans of the catalog; the plan id stands for the request details.
PlanIds == {"generalPurpose", "maxIO"}

VARIABLES
    InstanceMap,    \* b.dynamic.InstanceMap: instance id -> EFSInstance
    stateFile,      \* the <ServiceName>-services.json file
    mutex,          \* b.mutex: "free" or the name of the holder
    fileSystems,    \* remote: filesystem id -> lifecycle state
    mountTargets,   \* remote: filesystem id -> list of mount targets
    prov,           \* the Provision call that is past mutex.Lock
    poll,           \* the LastOperation("provision") call in progress
    tasks,          \* background goroutines, by request number
    nreq,           \* number of Provision/Deprovision requests made
    limit,          \* number of requests the platform makes in this run
    faults,         \* failures the environment may still inject: a remote
                    \* call or file write that fails, a crash of the process
    lastResult,     \* what the last handler call returned
    nfsbroker       \* the NFS service broker (package nfsbroker): its
                    \* dynamic state, its store and its configuration file

vars == <<InstanceMap, stateFile, mutex, fileSystems, mountTargets, prov, poll,
          tasks, nreq, limit, faults, lastResult, nfsbroker>>

\* ------------------------------------------------ remote lifecycle states
LifeCycleStateCreating == "creating"
LifeCycleStateAvailable == "available"
LifeCycleStateDeleting == "deleting"
LifeCycleStateDeleted == "deleted"
\* The filesystem id is unknown to the remote side.
Absent == "absent"

\* Error values.  ErrNotFound is the remote error whose message contains
\* "does not exist"; ErrRemote is any other error of a remote call.
NoErr == "nil"
ErrNotFound == "does not exist"
ErrRemote == "remote error"
ErrNoMountTargets == "no mount targets found"
ErrPrecondition == "invalid lifecycle transition"

\* Outcomes the environment can give a remote call or a file write now.
Outcomes == IF faults > 0 THEN {"ok", "fault"} ELSE {"ok"}
Spend(o) == IF o = "fault" THEN faults - 1 ELSE faults

\* ------------------------------------------------------------- Go values
ProvisionDetails(plan) == [type |-> "ProvisionDetails", PlanID |-> plan]

EFSInstance(details, efsId, err) ==
    [type |-> "EFSInstance", details |-> details, EfsId |-> efsId, err |-> err]

\* reflect.DeepEqual: values of different types are never deeply equal.
DeepEqual(x, y) == x.type = y.type /\ x = y

\* instanceConflicts that never finds a conflict.
instanceConflictsNever(details, instanceID) == FALSE

instanceConflicts(details, instanceID) ==
    IF instanceID \in DOMAIN InstanceMap
    THEN ~DeepEqual(details, InstanceMap[instanceID])
    ELSE FALSE

\* json.Marshal(b.dynamic): exported fields only, so EFSInstance.err is not
\* written; the embedded ProvisionDetails is written field by field.
Marshal(m) ==
    [i \in DOMAIN m |-> [plan_id |-> m[i].details.PlanID, EfsId |-> m[i].EfsId]]

\* json.Unmarshal into a dynamicState: a field that is not in the document
\* keeps its zero value.
Unmarshal(doc) ==
    [i \in DOMAIN doc |->
        EFSInstance(ProvisionDetails(doc[i].plan_id), doc[i].EfsId, FALSE)]

EmptyMap == [i \in {} |-> ""]
NoFile == [exists |-> FALSE, doc |-> EmptyMap]

\* persist with a WriteFile that leaves no file behind when it fails.
persistOrRemove(m, o) ==
    IF o = "ok" THEN [exists |-> TRUE, doc |-> Marshal(m)] ELSE NoFile

\* b.persist(state): the file is rewritten unless WriteFile fails; the
\* failure is logged and nothing else happens.
persist(m, o) ==
    IF o = "ok" THEN [exists |-> TRUE, doc |-> Marshal(m)] ELSE stateFile

\* ------------------------------------------------------- the remote side
\* DescribeFileSystems through getFsStatus: <<state, err>>.
getFsStatus(fsId, o) ==
    IF o = "fault" THEN <<"", ErrRemote>>
    ELSE IF fileSystems[fsId] = Absent THEN <<"", ErrNotFound>>
    ELSE <<fileSystems[fsId], NoErr>>

\* DescribeMountTargets through getMountsStatus: <<state, err>>.
getMountsStatus(fsId, o) ==
    IF o = "fault" THEN <<"", ErrRemote>>
    ELSE IF fileSystems[fsId] = Absent THEN <<"", ErrNotFound>>
    ELSE IF Len(mountTargets[fsId]) < 1 THEN <<"", ErrNoMountTargets>>
    ELSE <<mountTargets[fsId][1].state, NoErr>>

\* awsStateToLastOperation with the cases of "creating" and "available"
\* exchanged.
awsStateToLastOperationSwapped(state) ==
    CASE state = LifeCycleStateCreating -> "succeeded"
      [] state = LifeCycleStateAvailable -> "in progress"
      [] OTHER -> "failed"

awsStateToLastOperation(state) ==
    CASE state = LifeCycleStateCreating -> "in progress"
      [] state = LifeCycleStateAvailable -> "succeeded"
      [] OTHER -> "failed"

\* ------------------------------------------------------------ processes
Idle == [pc |-> "idle", instanceID |-> "", plan |-> "", req |-> 0]

PollIdle == [pc |-> "idle", instanceID |-> "", fsId |-> 0]

NoTask == [kind |-> "none", pc |-> "none", fsID |-> 0, instanceId |-> "",
           mtId |-> 0, calls |-> {}, cause |-> NoErr]

Result(op, id, state, err) == [op |-> op, id |-> id, state |-> state, err |-> err]

\* ==================================================== package nfsbroker
\* The NFS service broker (src/nfsbroker/nfsbroker.go): synchronous
\* Provision, Deprovision, Bind and Unbind over the instance map and the
\* binding map, and the bind-option configuration (Config).  Every handler
\* but Provision holds b.mutex from its first statement to its return, so a
\* handler is one step; Provision writes the instance map before it locks.

\* The instance ids and the binding ids the platform uses.
NfsIds == {"nfs-1"}
BindingIds == {"binding-1", "binding-2"}

\* ------------------------------------------------------------------ text
\* An option value is text the code parses: a sequence of characters.  Keys
\* and messages are only compared, and are strings.
Digits == <<"0", "1", "2", "3", "4", "5", "6", "7", "8", "9">>
IsDigit(c) == \E d \in DOMAIN Digits : Digits[d] = c
DigitValue(c) == (CHOOSE d \in DOMAIN Digits : Digits[d] = c) - 1

TextTrue == <<"t", "r", "u", "e">>
TextFalse == <<"f", "a", "l", "s", "e">>

\* strconv.ParseBool: the spellings it accepts; anything else is an error.
ParseBool(str) ==
    IF str \in {<<"1">>, <<"t">>, <<"T">>, <<"T", "R", "U", "E">>, TextTrue,
                <<"T", "r", "u", "e">>}
    THEN [val |-> TRUE, err |-> FALSE]
    ELSE IF str \in {<<"0">>, <<"f">>, <<"F">>, <<"F", "A", "L", "S", "E">>,
                     TextFalse, <<"F", "a", "l", "s", "e">>}
    THEN [val |-> FALSE, err |-> FALSE]
    ELSE [val |-> FALSE, err |-> TRUE]

RECURSIVE DecimalValue(_)
DecimalValue(s) ==
    IF s = <<>> THEN 0
    ELSE 10 * DecimalValue(SubSeq(s, 1, Len(s) - 1)) + DigitValue(s[Len(s)])

\* strconv.ParseInt(s, 10, bitSize): an optional sign and decimal digits; a
\* value outside the bitSize-bit range is an error.
ParseInt(s, bitSize) ==
    LET neg == Len(s) > 0 /\ s[1] = "-"
        signed == Len(s) > 0 /\ s[1] \in {"+", "-"}
        body == IF signed THEN Tail(s) ELSE s
        cutoff == 2 ^ (bitSize - 1)
        failed == [val |-> 0, err |-> TRUE]
    IN  IF body = <<>> \/ \E i \in DOMAIN body : ~IsDigit(body[i])
        THEN failed
        ELSE IF ~neg /\ DecimalValue(body) >= cutoff THEN failed
        ELSE IF neg /\ DecimalValue(body) > cutoff THEN failed
        ELSE [val |-> IF neg THEN 0 - DecimalValue(body)
                      ELSE DecimalValue(body),
              err |-> FALSE]

\* fmt.Sprintf("%d", n) and strconv.FormatInt(n, 10).
RECURSIVE FormatInt(_)
FormatInt(n) ==
    IF n < 0 THEN <<"-">> \o FormatInt(0 - n)
    ELSE IF n < 10 THEN <<Digits[n + 1]>>
    ELSE FormatInt(n \div 10) \o <<Digits[(n % 10) + 1]>>

FormatBool(b) == IF b THEN TextTrue ELSE TextFalse

\* ------------------------------------------------------------- Go values
\* A value held in an interface{}: its dynamic type and its value.
\* json.Unmarshal gives a JSON string as a string, true and false as a bool
\* and every JSON number as a float64.
GoString(t) == [type |-> "string", val |-> t]
GoBool(b) == [type |-> "bool", val |-> b]
GoFloat64(n) == [type |-> "float64", val |-> n]
GoInt(n) == [type |-> "int", val |-> n]
GoInt64(n) == [type |-> "int64", val |-> n]

\* The keys of a map in one of the orders a range loop may visit them.
Perms(S) ==
    {p \in [1..Cardinality(S) -> S] :
        \A i, j \in 1..Cardinality(S) : p[i] = p[j] => i = j}

MapSet(m, k, v) == [x \in DOMAIN m \cup {k} |-> IF x = k THEN v ELSE m[x]]
MapDelete(m, k) == [x \in DOMAIN m \ {k} |-> m[x]]

\* errors.New and the errors of brokerapi: the message and, for the error
\* of the option filter, the keys it lists.
Error(msg, keys) == [msg |-> msg, keys |-> keys]
Nil == Error("nil", <<>>)
ErrInstanceAlreadyExists == Error("instance already exists", <<>>)
ErrInstanceDoesNotExist == Error("instance does not exist", <<>>)
ErrBindingAlreadyExists == Error("binding already exists", <<>>)
ErrBindingDoesNotExist == Error("binding does not exist", <<>>)
ErrAppGuidNotProvided == Error("app_guid is a required field", <<>>)
ErrRawParamsInvalid == Error("The format of the parameters is not valid JSON", <<>>)
ErrSyntax == Error("unexpected end of JSON input", <<>>)
\* A run-time panic: the deferred calls run and no response is written.
Panic == Error("panic", <<>>)

\* A text of options: its entries, each a key, a separator and a value.
\* "uid:1000" is Entry("uid", ":", <<"1","0","0","0">>), "uid" is
\* Entry("uid", "", <<>>), and the empty text has the one entry NoEntry.
Entry(key, sep, val) == [key |-> key, sep |-> sep, val |-> val]
NoEntry == Entry("", "", <<>>)

\* strings.Split(text, ","), resp. "&": the entries; the empty text gives
\* one empty entry.
Split(entries) == IF entries = <<>> THEN <<NoEntry>> ELSE entries

\* strings.SplitN(opt, ":", 2) of an entry written with ":" or with no
\* separator.
SplitN(opt) == IF opt.sep = ":" THEN <<opt.key, opt.val>> ELSE <<opt.key>>

\* The JSON document of a request: invalid text, null, or an object with
\* its members in the order they are written.
Member(k, v) == [k |-> k, v |-> v]
JsonInvalid == [json |-> "invalid", members |-> <<>>]
JsonNull == [json |-> "null", members |-> <<>>]
JsonObject(members) == [json |-> "object", members |-> members]

\* json.Unmarshal(raw, &params) of an object: the last member of a key wins.
ObjectOf(members) ==
    [k \in {members[i].k : i \in DOMAIN members} |->
        members[CHOOSE i \in DOMAIN members :
                    /\ members[i].k = k
                    /\ \A j \in DOMAIN members : j > i => members[j].k # k].v]

BindDetails(appGUID, raw) ==
    [type |-> "BindDetails", AppGUID |-> appGUID, RawParameters |-> raw]

NfsProvisionDetails(raw) ==
    [type |-> "ProvisionDetails", PlanID |-> "Existing", RawParameters |-> raw]

ServiceInstance(details, share) ==
    [type |-> "ServiceInstance", PlanID |-> details.PlanID, Share |-> share]

\* A share "server/export?k:v&..." and the URL built from it: the part
\* before the first "?" and the entries of the part after it.
Url(base, query) == [base |-> base, query |-> query]

\* ---------------------------------------------------------------- Config
Username == "kerberosPrincipal"
Secret == "kerberosKeytab"

ignoreBindOpt(k) == k \in {"mount", "readonly", Username, Secret}

\* parseConfig: the map of the entries read so far; an entry with an empty
\* key is skipped, and key[1] of an entry without ":" is out of range.
RECURSIVE parseConfigLoop(_, _)
parseConfigLoop(listEntry, result) ==
    IF listEntry = <<>> THEN [panic |-> FALSE, map |-> result]
    ELSE LET key == SplitN(Head(listEntry))
         IN  IF key[1] = "" THEN parseConfigLoop(Tail(listEntry), result)
             ELSE IF Len(key) < 2 THEN [panic |-> TRUE, map |-> result]
             ELSE parseConfigLoop(Tail(listEntry),
                                  MapSet(result, key[1], key[2]))

parseConfig(listEntry) == parseConfigLoop(listEntry, <<>>)

initSloppyMount(mountOptions) ==
    IF "sloppy_mount" \in DOMAIN mountOptions
       /\ ~ParseBool(mountOptions["sloppy_mount"]).err
    THEN ParseBool(mountOptions["sloppy_mount"]).val
    ELSE FALSE

NoConfig == [sourceOptions |-> <<>>, mountOptions |-> <<>>, sloppyMount |-> FALSE]

\* getConf once both texts are parsed: a panic of parseConfig ends the call.
getConfParsed(mnt, src) ==
    IF mnt.panic \/ src.panic THEN [panic |-> TRUE, config |-> NoConfig]
    ELSE [panic |-> FALSE,
          config |-> [sourceOptions |-> src.map,
                      mountOptions |-> mnt.map,
                      sloppyMount |-> initSloppyMount(mnt.map)]]

\* getConf: the configuration file holds the two option texts.
getConf(configYaml) ==
    getConfParsed(parseConfig(Split(configYaml.mount_params)),
                  parseConfig(Split(configYaml.source_params)))

\* uniformEntry: an int, a string and a bool become text, a value of any
\* other type becomes the empty text.
uniformEntry(entryList) ==
    [k \in DOMAIN entryList |->
        CASE entryList[k].type = "int" -> FormatInt(entryList[k].val)
          [] entryList[k].type = "string" -> entryList[k].val
          [] entryList[k].type = "bool" -> FormatBool(entryList[k].val)
          [] OTHER -> <<>>]

\* The test both filters end with.
IncompatiblesBindOptions(m, errorList) ==
    IF Len(errorList) > 0 /\ ~m.sloppyMount
    THEN Error("Incompatibles bind options", errorList)
    ELSE Nil

\* The loop of filterArgs over cleanEntry, visiting the keys in order, and
\* the test after it: the Config it leaves and the error.
RECURSIVE filterArgsLoop(_, _, _, _)
filterArgsLoop(m, errorList, cleanEntry, order) ==
    IF order = <<>>
    THEN [m |-> m, err |-> IncompatiblesBindOptions(m, errorList)]
    ELSE LET k == Head(order)
             v == cleanEntry[k]
             okm == k \in DOMAIN m.mountOptions
             oks == k \in DOMAIN m.sourceOptions
             rest == Tail(order)
         IN  IF v = <<>> \/ ignoreBindOpt(k)
             THEN filterArgsLoop(m, errorList, cleanEntry, rest)
             ELSE IF ~okm /\ ~oks
             THEN filterArgsLoop(m, Append(errorList, k), cleanEntry, rest)
             ELSE IF ~ParseBool(v).err /\ ParseBool(v).val /\ k = "sloppy_mount"
             THEN filterArgsLoop([m EXCEPT !.sloppyMount = TRUE], errorList,
                                 cleanEntry, rest)
             ELSE IF okm
             THEN filterArgsLoop([m EXCEPT !.mountOptions = MapSet(@, k, v)],
                                 errorList, cleanEntry, rest)
             ELSE filterArgsLoop([m EXCEPT !.sourceOptions = MapSet(@, k, v)],
                                 errorList, cleanEntry, rest)

filterArgs(m, entryList, order) ==
    filterArgsLoop(m, <<>>, uniformEntry(entryList), order)

\* An entry split at ":", with an empty value when it has no ":".
SplitOpt(split) == IF Len(split) # 2 THEN Append(split, <<>>) ELSE split

\* The loop of filterSource over the entries of the query of the share,
\* and the test after it.
RECURSIVE filterSourceLoop(_, _, _)
filterSourceLoop(m, errorList, entryList) ==
    IF entryList = <<>>
    THEN [m |-> m, err |-> IncompatiblesBindOptions(m, errorList)]
    ELSE LET p == Head(entryList)
             k == SplitN(p)[1]
             v == SplitOpt(SplitN(p))[2]
             okm == k \in DOMAIN m.mountOptions
             oks == k \in DOMAIN m.sourceOptions
             rest == Tail(entryList)
         IN  IF p = NoEntry \/ ignoreBindOpt(k)
             THEN filterSourceLoop(m, errorList, rest)
             ELSE IF ~okm /\ ~oks
             THEN filterSourceLoop(m, Append(errorList, k), rest)
             ELSE IF ~ParseBool(v).err /\ ParseBool(v).val /\ k = "sloppy_mount"
             THEN filterSourceLoop([m EXCEPT !.sloppyMount = TRUE], errorList,
                                   rest)
             ELSE IF okm
             THEN filterSourceLoop([m EXCEPT !.mountOptions = MapSet(@, k, v)],
                                   errorList, rest)
             ELSE filterSourceLoop([m EXCEPT !.sourceOptions = MapSet(@, k, v)],
                                   errorList, rest)

filterSource(m, entryList) == filterSourceLoop(m, <<>>, entryList)

\* The loop of makeShare over sourceOptions, visiting the keys in order:
\* the list of "k=v" texts.
RECURSIVE paramsList(_, _)
paramsList(sourceOptions, order) ==
    IF order = <<>> THEN <<>>
    ELSE LET k == Head(order)
             v == sourceOptions[k]
             rest == paramsList(sourceOptions, Tail(order))
         IN  IF v = <<>> THEN rest
             ELSE IF ~ParseBool(v).err
             THEN <<Entry(k, "=", IF ParseBool(v).val THEN <<"1">>
                                  ELSE <<"0">>)>> \o rest
             ELSE IF ~ParseInt(v, 16).err
             THEN <<Entry(k, "=", FormatInt(ParseInt(v, 16).val))>> \o rest
             ELSE <<Entry(k, "=", v)>> \o rest

\* The test of makeShare on a mandatory source option.
Missing(sourceOptions, k) ==
    \/ k \notin DOMAIN sourceOptions
    \/ Len(sourceOptions[k]) < 1
    \/ sourceOptions[k] = <<"0">>

\* makeShare once filterSource has returned fs: uid and gid are required,
\* and the query is rebuilt from sourceOptions.
makeShareFiltered(fs, url, order) ==
    IF fs.err # Nil THEN [m |-> fs.m, url |-> url, err |-> fs.err]
    ELSE IF Missing(fs.m.sourceOptions, "uid")
    THEN [m |-> fs.m, url |-> url,
          err |-> Error("config requires a \"uid\"", <<>>)]
    ELSE IF Missing(fs.m.sourceOptions, "gid")
    THEN [m |-> fs.m, url |-> url,
          err |-> Error("config requires a \"gid\"", <<>>)]
    ELSE [m |-> fs.m,
          url |-> Url(url.base, paramsList(fs.m.sourceOptions, order)),
          err |-> Nil]

\* makeShare: the options of the query of the share are filtered in first.
makeShare(m, url, order) ==
    makeShareFiltered(filterSource(m, Split(url.query)), url, order)

\* A mount option in the mount configuration: a boolean text as a bool, a
\* 16-bit decimal text as an int64, any other text as it is.
MountOption(v) ==
    IF ~ParseBool(v).err THEN GoBool(ParseBool(v).val)
    ELSE IF ~ParseInt(v, 16).err THEN GoInt64(ParseInt(v, 16).val)
    ELSE GoString(v)

\* getMountConfig once makeShare has returned share: the source and the
\* mount options.
getMountConfigShared(share) ==
    IF share.err # Nil THEN [m |-> share.m, result |-> <<>>, err |-> share.err]
    ELSE [m |-> share.m,
          result |->
            [k \in {"source"} \cup DOMAIN share.m.mountOptions |->
                IF k \in DOMAIN share.m.mountOptions
                THEN MountOption(share.m.mountOptions[k])
                ELSE [type |-> "url", val |-> share.url]],
          err |-> Nil]

getMountConfig(m, source, order) ==
    getMountConfigShared(makeShare(m, source, order))

\* hash: the MD5 sum of json.Marshal(mountConfig), which writes the keys of
\* the map in sorted order: a function of the map alone.
hash(mountConfig) == [md5 |-> mountConfig]

readOnlyToMode(ro) == IF ro THEN "r" ELSE "rw"

evaluateMode(parameters) ==
    IF "readonly" \in DOMAIN parameters
    THEN IF parameters["readonly"].type = "bool"
         THEN [mode |-> readOnlyToMode(parameters["readonly"].val), err |-> Nil]
         ELSE [mode |-> "", err |-> ErrRawParamsInvalid]
    ELSE [mode |-> "rw", err |-> Nil]

DefaultContainerPath == "/var/vcap/data"

\* evaluateContainerPath: the "mount" parameter unless it is the empty
\* string; its type assertion panics on a value that is not a string.
evaluateContainerPath(parameters, volId) ==
    IF "mount" \in DOMAIN parameters /\ parameters["mount"] # GoString(<<>>)
    THEN IF parameters["mount"].type = "string"
         THEN [panic |-> FALSE, dir |-> <<parameters["mount"].val>>]
         ELSE [panic |-> TRUE, dir |-> <<>>]
    ELSE [panic |-> FALSE, dir |-> <<DefaultContainerPath, volId>>]

NfsInstanceConflicts(dynamic, details, instanceID) ==
    IF instanceID \in DOMAIN dynamic.InstanceMap
    THEN ~DeepEqual(details, dynamic.InstanceMap[instanceID])
    ELSE FALSE

\* bindingConflicts answering for the binding id alone.
bindingConflictsById(dynamic, bindingID, details) ==
    bindingID \in DOMAIN dynamic.BindingMap

bindingConflicts(dynamic, bindingID, details) ==
    IF bindingID \in DOMAIN dynamic.BindingMap
    THEN ~DeepEqual(details, dynamic.BindingMap[bindingID])
    ELSE FALSE

\* ----------------------------------------------------------------- store
\* Store.Save and Store.Restore: the store keeps the snapshot of the two
\* maps it is given and gives it back.
NoDynamicState == [InstanceMap |-> <<>>, BindingMap |-> <<>>]
Save(state) == state
Restore(saved) == saved

\* -------------------------------------------------------------- handlers
NoBinding == [VolumeMounts |-> <<>>]
NoDetails == [type |-> "none"]

NfsResult(op, instanceID, bindingID, details, err, binding) ==
    [op |-> op, instanceID |-> instanceID, bindingID |-> bindingID,
     details |-> details, err |-> err, binding |-> binding]

\* The Config object myCnf of a Bind call that is followed call by call:
\* the next call, the bind parameters, the source, the fields of myCnf, the
\* call that failed with its error, and the mount configuration.
NoCall ==
    [pc |-> "idle", parameters |-> <<>>, source |-> Url(<<>>, <<>>),
     config |-> NoConfig, failed |-> "", err |-> Nil, mountConfig |-> <<>>]

\* New: empty maps, then store.Restore.
NewBroker(configYaml, store) ==
    [dynamic |-> Restore(store), store |-> store, configYaml |-> configYaml,
     provisioning |-> {},
     result |-> NfsResult("New", "", "", NoDetails, Nil, NoBinding),
     myCnf |-> NoCall]

efsVars == <<InstanceMap, stateFile, mutex, fileSystems, mountTargets, prov,
             poll, tasks, nreq, limit, faults, lastResult>>

\* The process dies and is started again.
NfsRestart ==
    /\ nfsbroker' = NewBroker(nfsbroker.configYaml, nfsbroker.store)
    /\ UNCHANGED efsVars

\* json.NewDecoder(details.RawParameters).Decode(&configuration): the
\* "share" member, which has to be a string.
DecodeShare(raw) ==
    IF raw.json = "invalid" THEN [err |-> TRUE, Share |-> Url("", <<>>)]
    ELSE IF raw.json = "null" \/ "share" \notin DOMAIN ObjectOf(raw.members)
    THEN [err |-> FALSE, Share |-> Url("", <<>>)]
    ELSE IF ObjectOf(raw.members)["share"].type # "string"
    THEN [err |-> TRUE, Share |-> Url("", <<>>)]
    ELSE [err |-> FALSE, Share |-> ObjectOf(raw.members)["share"].val]

\* Provision up to mutex.Lock: the conflict test, the decoding of the
\* parameters and the write of the instance map.
NfsProvision(instanceID, details) ==
    LET configuration == DecodeShare(details.RawParameters)
        failed(err) ==
            nfsbroker' = [nfsbroker EXCEPT
                !.result = NfsResult("Provision", instanceID, "", details, err,
                                     NoBinding)]
    IN  /\ IF NfsInstanceConflicts(nfsbroker.dynamic, details, instanceID)
           THEN failed(ErrInstanceAlreadyExists)
           ELSE IF configuration.err THEN failed(ErrRawParamsInvalid)
           ELSE IF configuration.Share = Url("", <<>>)
           THEN failed(Error("config requires a \"share\" key", <<>>))
           ELSE nfsbroker' = [nfsbroker EXCEPT
                    !.dynamic.InstanceMap =
                        MapSet(@, instanceID,
                               ServiceInstance(details, configuration.Share)),
                    !.provisioning = @ \cup {instanceID}]
        /\ UNCHANGED efsVars

\* Provision from mutex.Lock: the deferred Save and the return.
NfsProvisionSave(instanceID) ==
    /\ instanceID \in nfsbroker.provisioning
    /\ nfsbroker' = [nfsbroker EXCEPT
            !.provisioning = @ \ {instanceID},
            !.store = Save(nfsbroker.dynamic),
            !.result = NfsResult("Provision", instanceID, "", NoDetails, Nil,
                                 NoBinding)]
    /\ UNCHANGED efsVars

\* NfsDeprovision that removes the bindings with the instance.
NfsDeprovisionWithBindings(instanceID) ==
    /\ IF instanceID \notin DOMAIN nfsbroker.dynamic.InstanceMap
       THEN nfsbroker' = [nfsbroker EXCEPT
                !.result = NfsResult("Deprovision", instanceID, "", NoDetails,
                                     ErrInstanceDoesNotExist, NoBinding)]
       ELSE LET dynamic == [nfsbroker.dynamic EXCEPT
                                !.InstanceMap = MapDelete(@, instanceID),
                                !.BindingMap = NoDynamicState.BindingMap]
            IN  nfsbroker' = [nfsbroker EXCEPT
                    !.dynamic = dynamic,
                    !.store = Save(dynamic),
                    !.result = NfsResult("Deprovision", instanceID, "",
                                         NoDetails, Nil, NoBinding)]
    /\ UNCHANGED efsVars

\* Deprovision: under the mutex, an unknown id is an error; a known one is
\* deleted from the instance map and the state is saved.
NfsDeprovision(instanceID) ==
    /\ IF instanceID \notin DOMAIN nfsbroker.dynamic.InstanceMap
       THEN nfsbroker' = [nfsbroker EXCEPT
                !.result = NfsResult("Deprovision", instanceID, "", NoDetails,
                                     ErrInstanceDoesNotExist, NoBinding)]
       ELSE LET dynamic == [nfsbroker.dynamic EXCEPT
                                !.InstanceMap = MapDelete(@, instanceID)]
            IN  nfsbroker' = [nfsbroker EXCEPT
                    !.dynamic = dynamic,
                    !.store = Save(dynamic),
                    !.result = NfsResult("Deprovision", instanceID, "",
                                         NoDetails, Nil, NoBinding)]
    /\ UNCHANGED efsVars

\* What Bind returns and the binding map it leaves.
Return(err, binding, bindings) ==
    [err |-> err, binding |-> binding, BindingMap |-> bindings]

\* Bind from the hash on: the binding it returns.
BindHashed(bindings, instanceID, mode, containerDir, mountConfig) ==
    IF containerDir.panic THEN Return(Panic, NoBinding, bindings)
    ELSE Return(Nil,
                [VolumeMounts |-> <<
                    [ContainerDir |-> containerDir.dir,
                     Mode |-> mode,
                     Driver |-> "nfsv3driver",
                     DeviceType |-> "shared",
                     Device |-> [VolumeId |-> <<instanceID, hash(mountConfig)>>,
                                 MountConfig |-> mountConfig]]>>],
                bindings)

\* Bind once getMountConfig has returned.
BindMounted(bindings, instanceID, parameters, mode, mountConfig) ==
    IF mountConfig.err # Nil THEN Return(mountConfig.err, NoBinding, bindings)
    ELSE BindHashed(bindings, instanceID, mode,
                    evaluateContainerPath(parameters, instanceID),
                    mountConfig.result)

\* Bind once filterArgs has returned.
BindFiltered(bindings, instanceID, parameters, mode, source, srcOrder, filtered) ==
    IF filtered.err # Nil THEN Return(filtered.err, NoBinding, bindings)
    ELSE BindMounted(bindings, instanceID, parameters, mode,
                     getMountConfig(filtered.m, source, srcOrder))

\* Bind once the binding is in the map and getConf has returned.
BindStored(bindings, instanceID, parameters, mode, source, argOrder, srcOrder, myCnf) ==
    IF myCnf.panic THEN Return(Panic, NoBinding, bindings)
    ELSE BindFiltered(bindings, instanceID, parameters, mode, source, srcOrder,
                      filterArgs(myCnf.config, parameters, argOrder))

\* Bind: the tests, the write of the binding map and the rest, with the
\* keys of the parameters visited in argOrder and those of sourceOptions in
\* srcOrder.
BindReturn(b, instanceID, bindingID, details, argOrder, srcOrder) ==
    LET old == b.dynamic.BindingMap
        raw == details.RawParameters
        parameters == ObjectOf(raw.members)
        share == b.dynamic.InstanceMap[instanceID].Share
    IN  IF instanceID \notin DOMAIN b.dynamic.InstanceMap
        THEN Return(ErrInstanceDoesNotExist, NoBinding, old)
        ELSE IF details.AppGUID = ""
        THEN Return(ErrAppGuidNotProvided, NoBinding, old)
        ELSE IF raw.json = "invalid" THEN Return(ErrSyntax, NoBinding, old)
        ELSE IF raw.json # "object" THEN Return(Panic, NoBinding, old)
        ELSE IF evaluateMode(parameters).err # Nil
        THEN Return(evaluateMode(parameters).err, NoBinding, old)
        ELSE IF bindingConflicts(b.dynamic, bindingID, details)
        THEN Return(ErrBindingAlreadyExists, NoBinding, old)
        ELSE BindStored(MapSet(old, bindingID, details), instanceID,
                        parameters, evaluateMode(parameters).mode,
                        Url(<<"nfs://", share.base>>, share.query),
                        argOrder, srcOrder, getConf(b.configYaml))

\* The keys of the bind parameters and of the configured source options.
ParameterKeys(details) ==
    {details.RawParameters.members[i].k :
        i \in DOMAIN details.RawParameters.members}
SourceKeys(configYaml) == DOMAIN getConf(configYaml).config.sourceOptions

\* The broker after Bind has returned r: the deferred Save and the response.
Bound(b, instanceID, bindingID, details, r) ==
    [b EXCEPT
        !.dynamic.BindingMap = r.BindingMap,
        !.store = Save([b.dynamic EXCEPT !.BindingMap = r.BindingMap]),
        !.result = NfsResult("Bind", instanceID, bindingID, details, r.err,
                             r.binding)]

NfsBind(instanceID, bindingID, details) ==
    /\ \E argOrder \in Perms(ParameterKeys(details)),
          srcOrder \in Perms(SourceKeys(nfsbroker.configYaml)) :
        nfsbroker' = Bound(nfsbroker, instanceID, bindingID, details,
                           BindReturn(nfsbroker, instanceID, bindingID,
                                      details, argOrder, srcOrder))
    /\ UNCHANGED efsVars

\* NfsUnbind without the test of the instance id.
NfsUnbindAnyInstance(instanceID, bindingID) ==
    LET known == bindingID \in DOMAIN nfsbroker.dynamic.BindingMap
        dynamic == IF known
                   THEN [nfsbroker.dynamic EXCEPT
                            !.BindingMap = MapDelete(@, bindingID)]
                   ELSE nfsbroker.dynamic
        err == IF known THEN Nil ELSE ErrBindingDoesNotExist
    IN  /\ nfsbroker' = [nfsbroker EXCEPT
                !.dynamic = dynamic,
                !.store = Save(dynamic),
                !.result = NfsResult("Unbind", instanceID, bindingID,
                                     NoDetails, err, NoBinding)]
        /\ UNCHANGED efsVars

\* Unbind: under the mutex and with the deferred Save, an unknown instance
\* and an unknown binding are errors; otherwise the binding is deleted.
NfsUnbind(instanceID, bindingID) ==
    LET known == /\ instanceID \in DOMAIN nfsbroker.dynamic.InstanceMap
                 /\ bindingID \in DOMAIN nfsbroker.dynamic.BindingMap
        dynamic == IF known
                   THEN [nfsbroker.dynamic EXCEPT
                            !.BindingMap = MapDelete(@, bindingID)]
                   ELSE nfsbroker.dynamic
        err == IF instanceID \notin DOMAIN nfsbroker.dynamic.InstanceMap
               THEN ErrInstanceDoesNotExist
               ELSE IF bindingID \notin DOMAIN nfsbroker.dynamic.BindingMap
               THEN ErrBindingDoesNotExist
               ELSE Nil
    IN  /\ nfsbroker' = [nfsbroker EXCEPT
                !.dynamic = dynamic,
                !.store = Save(dynamic),
                !.result = NfsResult("Unbind", instanceID, bindingID,
                                     NoDetails, err, NoBinding)]
        /\ UNCHANGED efsVars

NfsLastOperation(instanceID) ==
    /\ nfsbroker' = [nfsbroker EXCEPT
            !.result = NfsResult("LastOperation", instanceID, "", NoDetails,
                                 Error("unrecognized operationData", <<>>),
                                 NoBinding)]
    /\ UNCHANGED efsVars

\* ===================================================== package efsbroker
\* The state New leaves, with a platform that makes r requests and an
\* environment that may inject n failures.
New(r, n) ==
    /\ InstanceMap = EmptyMap
    /\ stateFile = NoFile
    /\ mutex = "free"
    /\ fileSystems = [f \in Reqs |-> Absent]
    /\ mountTargets = [f \in Reqs |-> <<>>]
    /\ prov = Idle
    /\ poll = PollIdle
    /\ tasks = [t \in Reqs |-> NoTask]
    /\ nreq = 0
    /\ limit = r
    /\ faults = n
    /\ lastResult = Result("none", "", "", NoErr)

Init ==
    /\ New(MaxRequests, MaxFaults)
    /\ nfsbroker = NewBroker([source_params |-> <<>>, mount_params |-> <<>>],
                            NoDynamicState)

\* ------------------------------------------------------------- Provision
\* ProvisionBegin without the test of asyncAllowed.
ProvisionBeginNoAsyncTest(instanceID, plan, asyncAllowed) ==
    /\ prov.pc = "idle"
    /\ mutex = "free"
    /\ nreq < limit
    /\ nreq' = nreq + 1
    /\ UNCHANGED <<limit, nfsbroker>>
    /\ \E o \in Outcomes :
        IF instanceConflicts(ProvisionDetails(plan), instanceID)
        THEN /\ stateFile' = persist(InstanceMap, o)
             /\ faults' = Spend(o)
             /\ lastResult' = Result("Provision", instanceID, "",
                                     "ErrInstanceAlreadyExists")
             /\ UNCHANGED <<mutex, prov>>
        ELSE /\ o = "ok"
             /\ mutex' = "Provision"
             /\ prov' = [pc |-> "CreateFileSystem", instanceID |-> instanceID,
                         plan |-> plan, req |-> nreq + 1]
             /\ UNCHANGED <<stateFile, faults, lastResult>>
    /\ UNCHANGED <<InstanceMap, fileSystems, mountTargets, poll, tasks>>

\* Provision up to the remote call: Lock, the deferred persist, the
\* asyncAllowed test and the conflict test.  A rejected request persists,
\* unlocks and returns; an accepted one goes on to CreateFileSystem with the
\* mutex held.
ProvisionBegin(instanceID, plan, asyncAllowed) ==
    /\ prov.pc = "idle"
    /\ mutex = "free"
    /\ nreq < limit
    /\ nreq' = nreq + 1
    /\ UNCHANGED <<limit, nfsbroker>>
    /\ \E o \in Outcomes :
        IF ~asyncAllowed \/ instanceConflicts(ProvisionDetails(plan), instanceID)
        THEN /\ stateFile' = persist(InstanceMap, o)
             /\ faults' = Spend(o)
             /\ lastResult' = Result("Provision", instanceID, "",
                    IF ~asyncAllowed THEN "ErrAsyncRequired"
                    ELSE "ErrInstanceAlreadyExists")
             /\ UNCHANGED <<mutex, prov>>
        ELSE /\ o = "ok"
             /\ mutex' = "Provision"
             /\ prov' = [pc |-> "CreateFileSystem", instanceID |-> instanceID,
                         plan |-> plan, req |-> nreq + 1]
             /\ UNCHANGED <<stateFile, faults, lastResult>>
    /\ UNCHANGED <<InstanceMap, fileSystems, mountTargets, poll, tasks>>

\* ProvisionCreateFileSystem with the go statement ahead of the error test:
\* the createMountTargets goroutine is started whatever CreateFileSystem
\* returned.
ProvisionCreateFileSystemGoFirst ==
    /\ prov.pc = "CreateFileSystem"
    /\ \E o \in Outcomes, w \in Outcomes :
        LET fs == prov.req
            m == [i \in DOMAIN InstanceMap \cup {prov.instanceID} |->
                    IF i = prov.instanceID
                    THEN EFSInstance(ProvisionDetails(prov.plan), fs, FALSE)
                    ELSE InstanceMap[i]]
        IN  /\ (o = "fault" /\ w = "fault") => faults > 1
            /\ faults' = Spend(w) - (IF o = "fault" THEN 1 ELSE 0)
            /\ tasks' = [tasks EXCEPT ![prov.req] =
                    [NoTask EXCEPT !.kind = "createMountTargets",
                                   !.pc = "getFsStatus",
                                   !.fsID = fs,
                                   !.instanceId = prov.instanceID]]
            /\ IF o = "fault"
               THEN /\ stateFile' = persist(InstanceMap, w)
                    /\ lastResult' = Result("Provision", prov.instanceID, "", ErrRemote)
                    /\ UNCHANGED <<InstanceMap, fileSystems>>
               ELSE /\ fileSystems' = [fileSystems EXCEPT ![fs] = LifeCycleStateCreating]
                    /\ InstanceMap' = m
                    /\ stateFile' = persist(m, w)
                    /\ lastResult' = Result("Provision", prov.instanceID, "accepted", NoErr)
    /\ mutex' = "free"
    /\ prov' = Idle
    /\ UNCHANGED <<mountTargets, poll, nreq, limit, nfsbroker>>

\* CreateFileSystem returns.  On an error Provision returns it; otherwise the
\* instance is stored, the createMountTargets goroutine is started, and the
\* deferred persist and Unlock run.
ProvisionCreateFileSystem ==
    /\ prov.pc = "CreateFileSystem"
    /\ \E o \in Outcomes, w \in Outcomes :
        /\ (o = "fault" /\ w = "fault") => faults > 1
        /\ faults' = Spend(w) - (IF o = "fault" THEN 1 ELSE 0)
        /\ IF o = "fault"
           THEN /\ stateFile' = persist(InstanceMap, w)
                /\ lastResult' = Result("Provision", prov.instanceID, "", ErrRemote)
                /\ UNCHANGED <<InstanceMap, fileSystems, tasks>>
           ELSE LET fs == prov.req
                    m == [i \in DOMAIN InstanceMap \cup {prov.instanceID} |->
                            IF i = prov.instanceID
                            THEN EFSInstance(ProvisionDetails(prov.plan), fs, FALSE)
                            ELSE InstanceMap[i]]
                IN  /\ fileSystems' = [fileSystems EXCEPT ![fs] = LifeCycleStateCreating]
                    /\ InstanceMap' = m
                    /\ tasks' = [tasks EXCEPT ![prov.req] =
                            [NoTask EXCEPT !.kind = "createMountTargets",
                                           !.pc = "getFsStatus",
                                           !.fsID = fs,
                                           !.instanceId = prov.instanceID]]
                    /\ stateFile' = persist(m, w)
                    /\ lastResult' = Result("Provision", prov.instanceID, "accepted", NoErr)
    /\ mutex' = "free"
    /\ prov' = Idle
    /\ UNCHANGED <<mountTargets, poll, nreq, limit, nfsbroker>>

\* CreateMountTargetsGetFsStatus of a goroutine that gives up when the
\* filesystem is neither being created nor available.
CreateMountTargetsGetFsStatusGivesUp(t) ==
    /\ tasks[t].kind = "createMountTargets"
    /\ tasks[t].pc = "getFsStatus"
    /\ \E o \in Outcomes :
        LET r == getFsStatus(tasks[t].fsID, o)
        IN  /\ faults' = Spend(o)
            /\ tasks' = [tasks EXCEPT ![t].pc =
                    IF r[1] = LifeCycleStateCreating THEN "getFsStatus"
                    ELSE IF r[1] = LifeCycleStateAvailable THEN "CreateMountTarget"
                    ELSE "done"]
    /\ UNCHANGED <<InstanceMap, stateFile, mutex, fileSystems, mountTargets,
                   prov, poll, nreq, limit, nfsbroker, lastResult>>

\* ---------------------------------------------------- createMountTargets
\* One getFsStatus of the wait loop (the first call, or the call after a
\* sleep).  The loop goes on while the state read is "creating"; any other
\* state, and an error (which leaves state ""), ends it.
CreateMountTargetsGetFsStatus(t) ==
    /\ tasks[t].kind = "createMountTargets"
    /\ tasks[t].pc = "getFsStatus"
    /\ \E o \in Outcomes :
        LET r == getFsStatus(tasks[t].fsID, o)
        IN  /\ faults' = Spend(o)
            /\ tasks' = [tasks EXCEPT ![t].pc =
                    IF r[1] = LifeCycleStateCreating THEN "getFsStatus"
                    ELSE "CreateMountTarget"]
    /\ UNCHANGED <<InstanceMap, stateFile, mutex, fileSystems, mountTargets,
                   prov, poll, nreq, limit, nfsbroker, lastResult>>

\* The remote CreateMountTarget: it needs an available filesystem.
RemoteCreateMountTarget(fsId, mtId, o) ==
    IF o = "ok" /\ fileSystems[fsId] = LifeCycleStateAvailable
    THEN [mountTargets EXCEPT ![fsId] =
            Append(@, [id |-> mtId, state |-> LifeCycleStateCreating])]
    ELSE mountTargets

\* CreateMountTargetsCreate that calls CreateMountTarget again after an
\* error.
CreateMountTargetsCreateRetry(t) ==
    /\ tasks[t].kind = "createMountTargets"
    /\ tasks[t].pc = "CreateMountTarget"
    /\ \E o \in Outcomes :
        /\ faults' = Spend(o)
        /\ mountTargets' = RemoteCreateMountTarget(tasks[t].fsID, t, o)
        /\ tasks' = [tasks EXCEPT ![t].pc =
                                      IF mountTargets' = mountTargets
                                      THEN "CreateMountTarget" ELSE "done",
                                  ![t].calls = @ \cup {"CreateMountTarget"},
                                  ![t].cause =
                                      IF mountTargets' = mountTargets
                                      THEN ErrRemote ELSE NoErr]
    /\ UNCHANGED <<InstanceMap, stateFile, mutex, fileSystems, prov, poll,
                   nreq, limit, nfsbroker, lastResult>>

\* CreateMountTarget in the first subnet; an error is logged and the
\* goroutine ends either way.
CreateMountTargetsCreate(t) ==
    /\ tasks[t].kind = "createMountTargets"
    /\ tasks[t].pc = "CreateMountTarget"
    /\ \E o \in Outcomes :
        /\ faults' = Spend(o)
        /\ mountTargets' = RemoteCreateMountTarget(tasks[t].fsID, t, o)
        /\ tasks' = [tasks EXCEPT ![t].pc = "done",
                                  ![t].calls = @ \cup {"CreateMountTarget"},
                                  ![t].cause =
                                      IF mountTargets' = mountTargets
                                      THEN ErrRemote ELSE NoErr]
    /\ UNCHANGED <<InstanceMap, stateFile, mutex, fileSystems, prov, poll,
                   nreq, limit, nfsbroker, lastResult>>

\* ----------------------------------------------------- remote lifecycle
\* The remote side finishes the creation of a filesystem.
FileSystemBecomesAvailable(f) ==
    /\ fileSystems[f] = LifeCycleStateCreating
    /\ fileSystems' = [fileSystems EXCEPT ![f] = LifeCycleStateAvailable]
    /\ UNCHANGED <<InstanceMap, stateFile, mutex, mountTargets, prov, poll,
                   tasks, nreq, limit, nfsbroker, faults, lastResult>>

\* The remote side finishes the creation of a mount target.
MountTargetBecomesAvailable(f, k) ==
    /\ k \in 1..Len(mountTargets[f])
    /\ mountTargets[f][k].state = LifeCycleStateCreating
    /\ mountTargets' = [mountTargets EXCEPT ![f][k].state = LifeCycleStateAvailable]
    /\ UNCHANGED <<InstanceMap, stateFile, mutex, fileSystems, prov, poll,
                   tasks, nreq, limit, nfsbroker, faults, lastResult>>

RemoveAt(s, k) == [j \in 1..(Len(s) - 1) |-> IF j < k THEN s[j] ELSE s[j + 1]]

\* The remote side finishes the deletion of a mount target: the target is
\* reported "deleted" and then leaves the list.
MountTargetDeleted(f, k) ==
    /\ k \in 1..Len(mountTargets[f])
    /\ \/ /\ mountTargets[f][k].state = LifeCycleStateDeleting
          /\ mountTargets' = [mountTargets EXCEPT ![f][k].state = LifeCycleStateDeleted]
       \/ /\ mountTargets[f][k].state = LifeCycleStateDeleted
          /\ mountTargets' = [mountTargets EXCEPT ![f] = RemoveAt(@, k)]
    /\ UNCHANGED <<InstanceMap, stateFile, mutex, fileSystems, prov, poll,
                   tasks, nreq, limit, nfsbroker, faults, lastResult>>

\* The remote side finishes the deletion of a filesystem: it is reported
\* "deleted" and then is unknown.
FileSystemDeleted(f) ==
    /\ \/ /\ fileSystems[f] = LifeCycleStateDeleting
          /\ fileSystems' = [fileSystems EXCEPT ![f] = LifeCycleStateDeleted]
       \/ /\ fileSystems[f] = LifeCycleStateDeleted
          /\ fileSystems' = [fileSystems EXCEPT ![f] = Absent]
    /\ UNCHANGED <<InstanceMap, stateFile, mutex, mountTargets, prov, poll,
                   tasks, nreq, limit, nfsbroker, faults, lastResult>>

\* ----------------------------------------------------------- Deprovision
\* Deprovision without the test of instanceExists: the request is answered as
\* accepted whether the instance is known or not.
DeprovisionUnchecked(instanceID) ==
    /\ mutex = "free"
    /\ nreq < limit
    /\ nreq' = nreq + 1
    /\ UNCHANGED <<limit, nfsbroker>>
    /\ tasks' =
        IF instanceID \notin DOMAIN InstanceMap THEN tasks
        ELSE [tasks EXCEPT ![nreq + 1] =
                [NoTask EXCEPT !.kind = "deprovision",
                               !.pc = "DescribeMountTargets",
                               !.fsID = InstanceMap[instanceID].EfsId,
                               !.instanceId = instanceID]]
    /\ lastResult' = Result("Deprovision", instanceID, "accepted", NoErr)
    /\ UNCHANGED <<InstanceMap, stateFile, mutex, fileSystems, mountTargets,
                   prov, poll, faults>>

\* Deprovision: under the mutex, look the instance up; an unknown id is an
\* error, a known one starts the deprovision goroutine.
Deprovision(instanceID) ==
    /\ mutex = "free"
    /\ nreq < limit
    /\ nreq' = nreq + 1
    /\ UNCHANGED <<limit, nfsbroker>>
    /\ IF instanceID \notin DOMAIN InstanceMap
       THEN /\ lastResult' = Result("Deprovision", instanceID, "", "ErrInstanceDoesNotExist")
            /\ UNCHANGED tasks
       ELSE /\ tasks' = [tasks EXCEPT ![nreq + 1] =
                    [NoTask EXCEPT !.kind = "deprovision",
                                   !.pc = "DescribeMountTargets",
                                   !.fsID = InstanceMap[instanceID].EfsId,
                                   !.instanceId = instanceID]]
            /\ lastResult' = Result("Deprovision", instanceID, "accepted", NoErr)
    /\ UNCHANGED <<InstanceMap, stateFile, mutex, fileSystems, mountTargets,
                   prov, poll, faults>>

\* DeprovisionDescribeMountTargets that takes an empty list of mount targets
\* for a failure.
DeprovisionDescribeMountTargetsNoneFails(t) ==
    /\ tasks[t].kind = "deprovision"
    /\ tasks[t].pc = "DescribeMountTargets"
    /\ \E o \in Outcomes :
        LET fs == tasks[t].fsID
            failed == o = "fault" \/ fileSystems[fs] = Absent
        IN  /\ faults' = Spend(o)
            /\ tasks' = [tasks EXCEPT ![t] =
                    IF failed
                    THEN [@ EXCEPT !.pc = "setErrorOnInstance",
                                   !.cause = IF o = "fault" THEN ErrRemote ELSE ErrNotFound]
                    ELSE IF Len(mountTargets[fs]) < 1
                    THEN [@ EXCEPT !.pc = "setErrorOnInstance",
                                   !.cause = ErrNoMountTargets]
                    ELSE IF mountTargets[fs][1].state # LifeCycleStateAvailable
                    THEN [@ EXCEPT !.pc = "setErrorOnInstance", !.cause = ErrPrecondition]
                    ELSE [@ EXCEPT !.pc = "DeleteMountTarget",
                                   !.mtId = mountTargets[fs][1].id]]
    /\ UNCHANGED <<InstanceMap, stateFile, mutex, fileSystems, mountTargets,
                   prov, poll, nreq, limit, nfsbroker, lastResult>>

\* deleteMountTargets, up to DeleteMountTarget: describe the mount targets;
\* an error fails the workflow, no target skips the deletion, a first target
\* that is not available fails the workflow.
DeprovisionDescribeMountTargets(t) ==
    /\ tasks[t].kind = "deprovision"
    /\ tasks[t].pc = "DescribeMountTargets"
    /\ \E o \in Outcomes :
        LET fs == tasks[t].fsID
            failed == o = "fault" \/ fileSystems[fs] = Absent
        IN  /\ faults' = Spend(o)
            /\ tasks' = [tasks EXCEPT ![t] =
                    IF failed
                    THEN [@ EXCEPT !.pc = "setErrorOnInstance",
                                   !.cause = IF o = "fault" THEN ErrRemote ELSE ErrNotFound]
                    ELSE IF Len(mountTargets[fs]) < 1
                    THEN [@ EXCEPT !.pc = "getMountsStatus"]
                    ELSE IF mountTargets[fs][1].state # LifeCycleStateAvailable
                    THEN [@ EXCEPT !.pc = "setErrorOnInstance", !.cause = ErrPrecondition]
                    ELSE [@ EXCEPT !.pc = "DeleteMountTarget",
                                   !.mtId = mountTargets[fs][1].id]]
    /\ UNCHANGED <<InstanceMap, stateFile, mutex, fileSystems, mountTargets,
                   prov, poll, nreq, limit, nfsbroker, lastResult>>

\* Position of the mount target with the given id in a list, 0 if none.
IndexOf(s, id) ==
    IF \E k \in 1..Len(s) : s[k].id = id
    THEN CHOOSE k \in 1..Len(s) : s[k].id = id
    ELSE 0

\* The remote DeleteMountTarget: an unknown target is an error; a known one
\* starts to be deleted.
RemoteDeleteMountTargetOk(fsId, mtId, o) ==
    o = "ok" /\ IndexOf(mountTargets[fsId], mtId) # 0

RemoteDeleteMountTarget(fsId, mtId, o) ==
    IF RemoteDeleteMountTargetOk(fsId, mtId, o)
    THEN LET k == IndexOf(mountTargets[fsId], mtId)
         IN  IF mountTargets[fsId][k].state = LifeCycleStateDeleted
             THEN mountTargets
             ELSE [mountTargets EXCEPT ![fsId][k].state = LifeCycleStateDeleting]
    ELSE mountTargets

\* DeprovisionDeleteMountTarget that drops the error of DeleteMountTarget and
\* goes on to the wait loop.
DeprovisionDeleteMountTargetNoTest(t) ==
    /\ tasks[t].kind = "deprovision"
    /\ tasks[t].pc = "DeleteMountTarget"
    /\ \E o \in Outcomes :
        /\ faults' = Spend(o)
        /\ mountTargets' = RemoteDeleteMountTarget(tasks[t].fsID, tasks[t].mtId, o)
        /\ tasks' = [tasks EXCEPT ![t] =
                [@ EXCEPT !.calls = @ \cup {"DeleteMountTarget"},
                          !.pc = "getMountsStatus"]]
    /\ UNCHANGED <<InstanceMap, stateFile, mutex, fileSystems, prov, poll,
                   nreq, limit, nfsbroker, lastResult>>

\* deleteMountTargets, the DeleteMountTarget call on the first-listed target.
DeprovisionDeleteMountTarget(t) ==
    /\ tasks[t].kind = "deprovision"
    /\ tasks[t].pc = "DeleteMountTarget"
    /\ \E o \in Outcomes :
        LET fs == tasks[t].fsID
            ok == RemoteDeleteMountTargetOk(fs, tasks[t].mtId, o)
        IN  /\ faults' = Spend(o)
            /\ mountTargets' = RemoteDeleteMountTarget(fs, tasks[t].mtId, o)
            /\ tasks' = [tasks EXCEPT ![t] =
                    [@ EXCEPT !.calls = @ \cup {"DeleteMountTarget"},
                              !.pc = IF ok THEN "getMountsStatus" ELSE "setErrorOnInstance",
                              !.cause = IF ok THEN NoErr
                                        ELSE IF o = "fault" THEN ErrRemote ELSE ErrNotFound]]
    /\ UNCHANGED <<InstanceMap, stateFile, mutex, fileSystems, prov, poll,
                   nreq, limit, nfsbroker, lastResult>>

\* One getMountsStatus of the mount target wait loop; the error is dropped.
\* The loop ends when the state read is "deleted" or "" (any error).
DeprovisionGetMountsStatus(t) ==
    /\ tasks[t].kind = "deprovision"
    /\ tasks[t].pc = "getMountsStatus"
    /\ \E o \in Outcomes :
        LET r == getMountsStatus(tasks[t].fsID, o)
        IN  /\ faults' = Spend(o)
            /\ tasks' = [tasks EXCEPT ![t].pc =
                    IF r[1] # LifeCycleStateDeleted /\ r[1] # ""
                    THEN "getMountsStatus" ELSE "DeleteFileSystem"]
    /\ UNCHANGED <<InstanceMap, stateFile, mutex, fileSystems, mountTargets,
                   prov, poll, nreq, limit, nfsbroker, lastResult>>

\* The remote DeleteFileSystem: <<new filesystem states, err>>.  An unknown
\* filesystem "does not exist"; one that still has a mount target that is not
\* deleted is in use.
RemoteDeleteFileSystem(fsId, o) ==
    IF o = "fault" THEN <<fileSystems, ErrRemote>>
    ELSE IF fileSystems[fsId] = Absent THEN <<fileSystems, ErrNotFound>>
    ELSE IF \E k \in 1..Len(mountTargets[fsId]) :
                mountTargets[fsId][k].state # LifeCycleStateDeleted
         THEN <<fileSystems, ErrRemote>>
    ELSE IF fileSystems[fsId] = LifeCycleStateDeleted THEN <<fileSystems, NoErr>>
    ELSE <<[fileSystems EXCEPT ![fsId] = LifeCycleStateDeleting], NoErr>>

\* DeleteFileSystem; any error fails the workflow.
DeprovisionDeleteFileSystem(t) ==
    /\ tasks[t].kind = "deprovision"
    /\ tasks[t].pc = "DeleteFileSystem"
    /\ \E o \in Outcomes :
        LET r == RemoteDeleteFileSystem(tasks[t].fsID, o)
        IN  /\ faults' = Spend(o)
            /\ fileSystems' = r[1]
            /\ tasks' = [tasks EXCEPT ![t] =
                    [@ EXCEPT !.calls = @ \cup {"DeleteFileSystem"},
                              !.pc = IF r[2] = NoErr THEN "getFsStatus"
                                     ELSE "setErrorOnInstance",
                              !.cause = r[2]]]
    /\ UNCHANGED <<InstanceMap, stateFile, mutex, mountTargets, prov, poll,
                   nreq, limit, nfsbroker, lastResult>>

\* DeprovisionGetFsStatus without the "does not exist" exemption: any error
\* of the wait loop fails the workflow.
DeprovisionGetFsStatusStrict(t) ==
    /\ tasks[t].kind = "deprovision"
    /\ tasks[t].pc = "getFsStatus"
    /\ \E o \in Outcomes :
        LET r == getFsStatus(tasks[t].fsID, o)
        IN  /\ faults' = Spend(o)
            /\ tasks' = [tasks EXCEPT ![t] =
                    IF r[1] # LifeCycleStateDeleted /\ r[2] = NoErr
                    THEN @
                    ELSE IF r[2] # NoErr
                    THEN [@ EXCEPT !.pc = "setErrorOnInstance", !.cause = r[2]]
                    ELSE [@ EXCEPT !.pc = "delete"]]
    /\ UNCHANGED <<InstanceMap, stateFile, mutex, fileSystems, mountTargets,
                   prov, poll, nreq, limit, nfsbroker, lastResult>>

\* One getFsStatus of the filesystem wait loop.  The loop goes on while the
\* state is not "deleted" and the call did not fail; after it, an error that
\* is not "does not exist" fails the workflow.
DeprovisionGetFsStatus(t) ==
    /\ tasks[t].kind = "deprovision"
    /\ tasks[t].pc = "getFsStatus"
    /\ \E o \in Outcomes :
        LET r == getFsStatus(tasks[t].fsID, o)
        IN  /\ faults' = Spend(o)
            /\ tasks' = [tasks EXCEPT ![t] =
                    IF r[1] # LifeCycleStateDeleted /\ r[2] = NoErr
                    THEN @
                    ELSE IF r[2] # NoErr /\ r[2] # ErrNotFound
                    THEN [@ EXCEPT !.pc = "setErrorOnInstance", !.cause = r[2]]
                    ELSE [@ EXCEPT !.pc = "delete"]]
    /\ UNCHANGED <<InstanceMap, stateFile, mutex, fileSystems, mountTargets,
                   prov, poll, nreq, limit, nfsbroker, lastResult>>

\* DeprovisionDelete with a persist that serialises the map before the
\* instance is removed from it.
DeprovisionDeletePersistFirst(t) ==
    /\ tasks[t].kind = "deprovision"
    /\ tasks[t].pc = "delete"
    /\ mutex = "free"
    /\ \E w \in Outcomes :
        LET m == [i \in DOMAIN InstanceMap \ {tasks[t].instanceId} |-> InstanceMap[i]]
        IN  /\ faults' = Spend(w)
            /\ InstanceMap' = m
            /\ stateFile' = persist(InstanceMap, w)
    /\ tasks' = [tasks EXCEPT ![t].pc = "done"]
    /\ UNCHANGED <<mutex, fileSystems, mountTargets, prov, poll, nreq, limit, nfsbroker,
                   lastResult>>

\* The end of a successful deprovision: under the mutex, remove the instance
\* and persist.
DeprovisionDelete(t) ==
    /\ tasks[t].kind = "deprovision"
    /\ tasks[t].pc = "delete"
    /\ mutex = "free"
    /\ \E w \in Outcomes :
        LET m == [i \in DOMAIN InstanceMap \ {tasks[t].instanceId} |-> InstanceMap[i]]
        IN  /\ faults' = Spend(w)
            /\ InstanceMap' = m
            /\ stateFile' = persist(m, w)
    /\ tasks' = [tasks EXCEPT ![t].pc = "done"]
    /\ UNCHANGED <<mutex, fileSystems, mountTargets, prov, poll, nreq,
                   limit, nfsbroker, lastResult>>

\* setErrorOnInstance that sets err on its copy of the instance and does not
\* store the copy back in the map.
setErrorOnInstanceCopyOnly(t) ==
    /\ tasks[t].kind = "deprovision"
    /\ tasks[t].pc = "setErrorOnInstance"
    /\ mutex = "free"
    /\ tasks' = [tasks EXCEPT ![t].pc = "failed"]
    /\ UNCHANGED <<InstanceMap, stateFile, mutex, fileSystems, mountTargets,
                   prov, poll, nreq, limit, nfsbroker, faults, lastResult>>

\* setErrorOnInstance, called by a failed deprovision: under the mutex, set
\* the err flag of the instance if it is still in the map.  Nothing is
\* persisted.
setErrorOnInstance(t) ==
    /\ tasks[t].kind = "deprovision"
    /\ tasks[t].pc = "setErrorOnInstance"
    /\ mutex = "free"
    /\ InstanceMap' =
        IF tasks[t].instanceId \in DOMAIN InstanceMap
        THEN [InstanceMap EXCEPT ![tasks[t].instanceId].err = TRUE]
        ELSE InstanceMap
    /\ tasks' = [tasks EXCEPT ![t].pc = "failed"]
    /\ UNCHANGED <<stateFile, mutex, fileSystems, mountTargets, prov, poll,
                   nreq, limit, nfsbroker, faults, lastResult>>

\* --------------------------------------------------------- LastOperation
\* LastOperation takes no lock: it reads the instance map as it is.
\* operationData "deprovision": the answer is read off the instance record.
\* deprovisionState without the test of instance.err.
deprovisionStateNoFlag(instanceID) ==
    IF instanceID \notin DOMAIN InstanceMap THEN "succeeded" ELSE "in progress"

deprovisionState(instanceID) ==
    IF instanceID \notin DOMAIN InstanceMap THEN "succeeded"
    ELSE IF InstanceMap[instanceID].err THEN "failed"
    ELSE "in progress"

LastOperationDeprovision(instanceID) ==
    /\ lastResult' = Result("LastOperation(deprovision)", instanceID,
                            deprovisionState(instanceID), NoErr)
    /\ UNCHANGED <<InstanceMap, stateFile, mutex, fileSystems, mountTargets,
                   prov, poll, tasks, nreq, limit, nfsbroker, faults>>

\* LastOperationProvision without the test of instanceExists: a missing
\* instance is answered with the status of the empty state.
LastOperationProvisionUnchecked(instanceID) ==
    /\ poll.pc = "idle"
    /\ IF instanceID \notin DOMAIN InstanceMap
       THEN /\ lastResult' = Result("LastOperation(provision)", instanceID,
                                    awsStateToLastOperation(""), NoErr)
            /\ UNCHANGED poll
       ELSE /\ poll' = [pc |-> "getFsStatus", instanceID |-> instanceID,
                        fsId |-> InstanceMap[instanceID].EfsId]
            /\ UNCHANGED lastResult
    /\ UNCHANGED <<InstanceMap, stateFile, mutex, fileSystems, mountTargets,
                   prov, tasks, nreq, limit, nfsbroker, faults>>

\* operationData "provision", up to the first remote call: an unknown id is
\* an error, a known one goes on to getStatus with the instance's EfsId.
LastOperationProvision(instanceID) ==
    /\ poll.pc = "idle"
    /\ IF instanceID \notin DOMAIN InstanceMap
       THEN /\ lastResult' = Result("LastOperation(provision)", instanceID, "",
                                    "ErrInstanceDoesNotExist")
            /\ UNCHANGED poll
       ELSE /\ poll' = [pc |-> "getFsStatus", instanceID |-> instanceID,
                        fsId |-> InstanceMap[instanceID].EfsId]
            /\ UNCHANGED lastResult
    /\ UNCHANGED <<InstanceMap, stateFile, mutex, fileSystems, mountTargets,
                   prov, tasks, nreq, limit, nfsbroker, faults>>

\* LastOperationGetFsStatus of a getStatus that does not ask for the mount
\* targets: the state of the filesystem is the status.
LastOperationGetFsStatusOnly ==
    /\ poll.pc = "getFsStatus"
    /\ \E o \in Outcomes :
        LET r == getFsStatus(poll.fsId, o)
        IN  /\ faults' = Spend(o)
            /\ lastResult' =
                IF r[2] # NoErr
                THEN Result("LastOperation(provision)", poll.instanceID, "", r[2])
                ELSE Result("LastOperation(provision)", poll.instanceID,
                            awsStateToLastOperation(r[1]), NoErr)
    /\ poll' = PollIdle
    /\ UNCHANGED <<InstanceMap, stateFile, mutex, fileSystems, mountTargets,
                   prov, tasks, nreq, limit, nfsbroker>>

\* getStatus, the getFsStatus call: an error is returned; a state other than
\* "available" is the status; otherwise the mount targets are asked.
LastOperationGetFsStatus ==
    /\ poll.pc = "getFsStatus"
    /\ \E o \in Outcomes :
        LET r == getFsStatus(poll.fsId, o)
        IN  /\ faults' = Spend(o)
            /\ IF r[2] # NoErr
               THEN /\ lastResult' = Result("LastOperation(provision)",
                                            poll.instanceID, "", r[2])
                    /\ poll' = PollIdle
               ELSE IF r[1] # LifeCycleStateAvailable
               THEN /\ lastResult' = Result("LastOperation(provision)",
                            poll.instanceID, awsStateToLastOperation(r[1]), NoErr)
                    /\ poll' = PollIdle
               ELSE /\ poll' = [poll EXCEPT !.pc = "getMountsStatus"]
                    /\ UNCHANGED lastResult
    /\ UNCHANGED <<InstanceMap, stateFile, mutex, fileSystems, mountTargets,
                   prov, tasks, nreq, limit, nfsbroker>>

\* LastOperationGetMountsStatus of a getStatus that asks for the mount
\* targets and then returns the state of the filesystem all the same.
LastOperationGetMountsStatusAsFs ==
    /\ poll.pc = "getMountsStatus"
    /\ \E o \in Outcomes :
        LET r == getMountsStatus(poll.fsId, o)
            status == IF r[2] = ErrNoMountTargets THEN LifeCycleStateCreating
                      ELSE LifeCycleStateAvailable
        IN  /\ faults' = Spend(o)
            /\ lastResult' =
                IF r[2] # NoErr /\ r[2] # ErrNoMountTargets
                THEN Result("LastOperation(provision)", poll.instanceID, "", r[2])
                ELSE Result("LastOperation(provision)", poll.instanceID,
                            awsStateToLastOperation(status), NoErr)
    /\ poll' = PollIdle
    /\ UNCHANGED <<InstanceMap, stateFile, mutex, fileSystems, mountTargets,
                   prov, tasks, nreq, limit, nfsbroker>>

\* getStatus, the getMountsStatus call: no mount target yet counts as
\* "creating", another error is returned, otherwise the first mount target's
\* state is the status.
LastOperationGetMountsStatus ==
    /\ poll.pc = "getMountsStatus"
    /\ \E o \in Outcomes :
        LET r == getMountsStatus(poll.fsId, o)
            status == IF r[2] = ErrNoMountTargets THEN LifeCycleStateCreating ELSE r[1]
        IN  /\ faults' = Spend(o)
            /\ lastResult' =
                IF r[2] # NoErr /\ r[2] # ErrNoMountTargets
                THEN Result("LastOperation(provision)", poll.instanceID, "", r[2])
                ELSE Result("LastOperation(provision)", poll.instanceID,
                            awsStateToLastOperation(status), NoErr)
    /\ poll' = PollIdle
    /\ UNCHANGED <<InstanceMap, stateFile, mutex, fileSystems, mountTargets,
                   prov, tasks, nreq, limit, nfsbroker>>

\* Any other operationData is an error.
LastOperationOther(instanceID) ==
    /\ lastResult' = Result("LastOperation(other)", instanceID, "",
                            "unrecognized operationData")
    /\ UNCHANGED <<InstanceMap, stateFile, mutex, fileSystems, mountTargets,
                   prov, poll, tasks, nreq, limit, nfsbroker, faults>>

\* ----------------------------------------------------------- Bind, Unbind
\* Bind and Unbind are not implemented: under the mutex they persist the
\* state and return an error.
Bind(instanceID) ==
    /\ mutex = "free"
    /\ \E w \in Outcomes :
        /\ faults' = Spend(w)
        /\ stateFile' = persist(InstanceMap, w)
    /\ lastResult' = Result("Bind", instanceID, "", "unimplemented")
    /\ UNCHANGED <<InstanceMap, mutex, fileSystems, mountTargets, prov, poll,
                   tasks, nreq, limit, nfsbroker>>

Unbind(instanceID) ==
    /\ mutex = "free"
    /\ \E w \in Outcomes :
        /\ faults' = Spend(w)
        /\ stateFile' = persist(InstanceMap, w)
    /\ lastResult' = Result("Unbind", instanceID, "", "unimplemented")
    /\ UNCHANGED <<InstanceMap, mutex, fileSystems, mountTargets, prov, poll,
                   tasks, nreq, limit, nfsbroker>>

\* ---------------------------------------------------------------- restart
\* The broker process dies and is started again: its goroutines and the calls
\* in progress are gone, and New builds a broker with empty maps (the call of
\* restoreDynamicState is commented out).  The state file and the remote side
\* stay as they are.
Restart ==
    /\ faults > 0
    /\ faults' = faults - 1
    /\ InstanceMap' = EmptyMap
    /\ mutex' = "free"
    /\ prov' = Idle
    /\ poll' = PollIdle
    /\ tasks' = [t \in Reqs |-> NoTask]
    /\ lastResult' = Result("New", "", "", NoErr)
    /\ UNCHANGED <<stateFile, fileSystems, mountTargets, nreq, limit, nfsbroker>>

\* The steps of the handlers, of the goroutines and of the remote side.
Run ==
    \/ \E i \in Ids, p \in PlanIds, a \in BOOLEAN : ProvisionBegin(i, p, a)
    \/ ProvisionCreateFileSystem
    \/ \E t \in Reqs : CreateMountTargetsGetFsStatus(t)
    \/ \E t \in Reqs : CreateMountTargetsCreate(t)
    \/ \E i \in Ids : Deprovision(i)
    \/ \E t \in Reqs : DeprovisionDescribeMountTargets(t)
    \/ \E t \in Reqs : DeprovisionDeleteMountTarget(t)
    \/ \E t \in Reqs : DeprovisionGetMountsStatus(t)
    \/ \E t \in Reqs : DeprovisionDeleteFileSystem(t)
    \/ \E t \in Reqs : DeprovisionGetFsStatus(t)
    \/ \E t \in Reqs : DeprovisionDelete(t)
    \/ \E t \in Reqs : setErrorOnInstance(t)
    \/ \E i \in Ids : LastOperationDeprovision(i)
    \/ \E i \in Ids : LastOperationProvision(i)
    \/ LastOperationGetFsStatus
    \/ LastOperationGetMountsStatus
    \/ \E i \in Ids : LastOperationOther(i)
    \/ \E i \in Ids : Bind(i)
    \/ \E i \in Ids : Unbind(i)
    \/ \E f \in Reqs : FileSystemBecomesAvailable(f)
    \/ \E f \in Reqs, k \in Reqs : MountTargetBecomesAvailable(f, k)
    \/ \E f \in Reqs, k \in Reqs : MountTargetDeleted(f, k)
    \/ \E f \in Reqs : FileSystemDeleted(f)

Next == Run \/ Restart

Spec == Init /\ [][Next]_vars

\* ------------------------------------------------- a reliable environment
\* The environment injects no failure: every remote call is answered from
\* the remote state, every file write succeeds and the process does not die.
LiveInit ==
    /\ New(MaxLiveRequests, 0)
    /\ nfsbroker = NewBroker([source_params |-> <<>>, mount_params |-> <<>>],
                            NoDynamicState)

\* A step of a goroutine that is not waiting for the mutex to be released by
\* someone else, or of the remote side.  Go schedules every runnable
\* goroutine, a remote call returns, and the remote side finishes what it
\* started.
Progress ==
    \/ ProvisionCreateFileSystem
    \/ \E t \in Reqs :
        \/ CreateMountTargetsGetFsStatus(t)
        \/ CreateMountTargetsCreate(t)
        \/ DeprovisionDescribeMountTargets(t)
        \/ DeprovisionDeleteMountTarget(t)
        \/ DeprovisionGetMountsStatus(t)
        \/ DeprovisionDeleteFileSystem(t)
        \/ DeprovisionGetFsStatus(t)
        \/ DeprovisionDelete(t)
        \/ setErrorOnInstance(t)
    \/ \E f \in Reqs : FileSystemBecomesAvailable(f) \/ FileSystemDeleted(f)
    \/ \E f \in Reqs, k \in Reqs :
        MountTargetBecomesAvailable(f, k) \/ MountTargetDeleted(f, k)

\* The platform keeps polling the last operation of an instance.
PollProvision ==
    \/ \E i \in Ids : LastOperationProvision(i)
    \/ LastOperationGetFsStatus
    \/ LastOperationGetMountsStatus

PollDeprovision == \E i \in Ids : LastOperationDeprovision(i)

LiveSpec ==
    /\ LiveInit
    /\ [][Run]_vars
    /\ WF_vars(Progress)
    /\ WF_vars(PollProvision)
    /\ WF_vars(PollDeprovision)

\* --------------------------------------------------- a polling platform
\* The environment of Spec, failures and restarts included, with a platform
\* that keeps asking for the last operation of its deprovision requests.
PolledSpec == Spec /\ WF_vars(PollDeprovision)

\* ------------------------------------------- Bind, one call at a time
\* The calls Bind makes on myCnf (lines 231 to 245): getConf, filterArgs
\* and getMountConfig; an error ends the sequence.
\* myCnf after getConf has returned r.
AfterGetConf(call, r) ==
    [call EXCEPT
        !.config = r.config,
        !.pc = IF r.panic THEN "done" ELSE "filterArgs",
        !.failed = IF r.panic THEN "getConf" ELSE "",
        !.err = IF r.panic THEN Panic ELSE Nil]

BindGetConf ==
    /\ nfsbroker.myCnf.pc = "getConf"
    /\ nfsbroker' = [nfsbroker EXCEPT
            !.myCnf = AfterGetConf(@, getConf(nfsbroker.configYaml))]
    /\ UNCHANGED efsVars

\* myCnf after filterArgs has returned r.
AfterFilterArgs(call, r) ==
    [call EXCEPT
        !.config = r.m,
        !.pc = IF r.err # Nil THEN "done" ELSE "getMountConfig",
        !.failed = IF r.err # Nil THEN "filterArgs" ELSE "",
        !.err = r.err]

BindFilterArgs ==
    /\ nfsbroker.myCnf.pc = "filterArgs"
    /\ \E order \in Perms(DOMAIN nfsbroker.myCnf.parameters) :
        nfsbroker' = [nfsbroker EXCEPT
            !.myCnf = AfterFilterArgs(@, filterArgs(@.config, @.parameters,
                                                    order))]
    /\ UNCHANGED efsVars

\* myCnf after getMountConfig has returned r.
AfterGetMountConfig(call, r) ==
    [call EXCEPT
        !.config = r.m,
        !.pc = "done",
        !.failed = IF r.err # Nil THEN "getMountConfig" ELSE "",
        !.err = r.err,
        !.mountConfig = r.result]

BindGetMountConfig ==
    /\ nfsbroker.myCnf.pc = "getMountConfig"
    /\ \E order \in Perms(DOMAIN nfsbroker.myCnf.config.sourceOptions) :
        nfsbroker' = [nfsbroker EXCEPT
            !.myCnf = AfterGetMountConfig(@, getMountConfig(@.config, @.source,
                                                            order))]
    /\ UNCHANGED efsVars

\* ---------------------------------------------------------------- inputs
\* The configuration file: the texts of source_params and mount_params.
ConfigYaml(src, mnt) == [source_params |-> src, mount_params |-> mnt]

Text1000 == <<"1", "0", "0", "0">>
Text2000 == <<"2", "0", "0", "0">>
TextBar == <<"b", "a", "r">>

\* Defaults for uid and gid; and uid, gid and sloppy_mount allowed without
\* a default.
ConfigDefaults ==
    ConfigYaml(<<Entry("uid", ":", Text1000), Entry("gid", ":", Text1000)>>,
               <<>>)
ConfigAllowed ==
    ConfigYaml(<<Entry("uid", ":", <<>>), Entry("gid", ":", <<>>)>>,
               <<Entry("sloppy_mount", ":", TextFalse)>>)

\* The configurations an operator deploys the broker with: the two above;
\* the defaults with sloppy_mount switched on; no option at all; the uid of
\* root, written "0", "00" and "false"; a uid too large for 16 bits; and
\* keys written without a ":".
ConfigYamls ==
    {ConfigDefaults,
     ConfigAllowed,
     ConfigYaml(<<Entry("uid", ":", Text1000), Entry("gid", ":", Text1000)>>,
                <<Entry("sloppy_mount", ":", TextTrue)>>),
     ConfigYaml(<<>>, <<>>),
     ConfigYaml(<<Entry("uid", ":", <<"0">>), Entry("gid", ":", Text1000)>>,
                <<>>),
     ConfigYaml(<<Entry("uid", ":", <<"0", "0">>), Entry("gid", ":", Text1000)>>,
                <<>>),
     ConfigYaml(<<Entry("uid", ":", TextFalse), Entry("gid", ":", Text1000)>>,
                <<>>),
     ConfigYaml(<<Entry("uid", ":", <<"7", "0", "0", "0", "0">>),
                  Entry("gid", ":", Text1000)>>,
                <<Entry("nfs_uid", ":", Text2000)>>),
     ConfigYaml(<<Entry("uid", "", <<>>), Entry("gid", "", <<>>)>>, <<>>)}

\* The shares of the Provision requests: a plain export, and an export with
\* options in its query.
Shares ==
    {Url("server/export", <<>>),
     Url("server/export", <<Entry("uid", ":", Text2000),
                             Entry("gid", ":", Text2000)>>)}

ProvisionParameters ==
    {JsonObject(<<Member("share", GoString(s))>>) : s \in Shares}
        \cup {JsonObject(<<>>), JsonInvalid}

AppGUIDs == {"", "app-1"}

\* The parameters of the Bind requests the handlers are run with.
BindParameters ==
    {JsonObject(<<>>),
     JsonObject(<<Member("foo", GoString(TextBar))>>),
     JsonObject(<<Member("uid", GoString(Text2000)),
                  Member("gid", GoString(Text2000))>>),
     JsonInvalid}

\* The JSON objects the calls on myCnf are run with.
BindObjects ==
    {JsonObject(<<>>),
     JsonObject(<<Member("foo", GoString(TextBar))>>),
     JsonObject(<<Member("foo", GoFloat64(5))>>),
     JsonObject(<<Member("foo", GoString(<<>>))>>),
     JsonObject(<<Member("uid", GoString(Text2000)),
                  Member("gid", GoString(Text2000))>>),
     JsonObject(<<Member("uid", GoString(<<"0">>))>>),
     JsonObject(<<Member("sloppy_mount", GoBool(TRUE)),
                  Member("foo", GoString(TextBar))>>),
     JsonObject(<<Member("sloppy_mount", GoBool(FALSE)),
                  Member("foo", GoString(TextBar))>>),
     JsonObject(<<Member("readonly", GoBool(TRUE)),
                  Member("mount", GoString(<<"/", "d">>)),
                  Member(Username, GoString(TextBar))>>)}

\* ------------------------------------------------- the NFS broker's runs
NfsInit ==
    /\ New(0, 0)
    /\ \E c \in {ConfigDefaults, ConfigAllowed} :
        nfsbroker = NewBroker(c, NoDynamicState)

NfsNext ==
    \/ \E i \in NfsIds, raw \in ProvisionParameters :
        NfsProvision(i, NfsProvisionDetails(raw))
    \/ \E i \in NfsIds : NfsProvisionSave(i)
    \/ \E i \in NfsIds : NfsDeprovision(i)
    \/ \E i \in NfsIds, b \in BindingIds, a \in AppGUIDs, raw \in BindParameters :
        NfsBind(i, b, BindDetails(a, raw))
    \/ \E i \in NfsIds, b \in BindingIds : NfsUnbind(i, b)
    \/ \E i \in NfsIds : NfsLastOperation(i)
    \/ NfsRestart

NfsSpec == NfsInit /\ [][NfsNext]_vars

\* A Bind call for every configuration, parameter object and share,
\* followed through its calls on myCnf.
ConfigInit ==
    /\ New(0, 0)
    /\ \E c \in ConfigYamls, raw \in BindObjects, s \in Shares :
        nfsbroker =
            [NewBroker(c, NoDynamicState) EXCEPT
                !.myCnf.pc = "getConf",
                !.myCnf.parameters = ObjectOf(raw.members),
                !.myCnf.source = Url(<<"nfs://", s.base>>, s.query)]

ConfigNext == BindGetConf \/ BindFilterArgs \/ BindGetMountConfig

ConfigSpec == ConfigInit /\ [][ConfigNext]_vars

\* ================================================================ claims
\* Request t was accepted as a create request, resp. a destroy request.
CreateAccepted(t) == tasks[t].kind = "createMountTargets"
DestroyAccepted(t) == tasks[t].kind = "deprovision"

\* A destroy request for the instance of request t was accepted.
DestroyRequested(t) ==
    \E u \in Reqs : DestroyAccepted(u) /\ tasks[u].instanceId = tasks[t].instanceId

\* A create request for the instance of request t was accepted after t.
CreatedAgain(t) ==
    \E u \in Reqs :
        u > t /\ CreateAccepted(u) /\ tasks[u].instanceId = tasks[t].instanceId

\* The last answer of LastOperation for the instance and the operation.
Polled(instanceID, operationData, state) ==
    lastResult = Result(operationData, instanceID, state, NoErr)

\* C1: in a reliable environment, every accepted create request whose
\* instance nobody asks to destroy leads to a state where
\* LastOperation("provision") has just answered Succeeded and the instance is
\* in the instance map.
C1_CreateEventuallySucceeds ==
    \A t \in Reqs :
        CreateAccepted(t) ~>
            \/ /\ Polled(tasks[t].instanceId, "LastOperation(provision)", "succeeded")
               /\ tasks[t].instanceId \in DOMAIN InstanceMap
            \/ DestroyRequested(t)

C1_Witness ==
    \E t \in Reqs :
        /\ CreateAccepted(t)
        /\ ~DestroyRequested(t)
        /\ tasks[t].pc = "done"
        /\ Polled(tasks[t].instanceId, "LastOperation(provision)", "succeeded")
        /\ tasks[t].instanceId \in DOMAIN InstanceMap

\* The destroy request t was accepted just now, and the filesystem has one
\* mount target, which is available.
DestroyStartsWithAvailableMountTarget(t) ==
    /\ DestroyAccepted(t)
    /\ tasks[t].pc = "DescribeMountTargets"
    /\ Len(mountTargets[tasks[t].fsID]) = 1
    /\ mountTargets[tasks[t].fsID][1].state = LifeCycleStateAvailable

\* C3: in a reliable environment, a destroy request accepted while the
\* filesystem has one available mount target leads to a state where
\* LastOperation("deprovision") has just answered Succeeded and the instance
\* is not in the instance map, unless the instance is created again first.
C3_DestroyEventuallySucceeds ==
    \A t \in Reqs :
        DestroyStartsWithAvailableMountTarget(t) ~>
            \/ /\ Polled(tasks[t].instanceId, "LastOperation(deprovision)", "succeeded")
               /\ tasks[t].instanceId \notin DOMAIN InstanceMap
            \/ CreatedAgain(t)

C3_Witness ==
    \E t \in Reqs :
        /\ DestroyAccepted(t)
        /\ tasks[t].pc = "done"
        /\ tasks[t].calls = {"DeleteMountTarget", "DeleteFileSystem"}
        /\ ~CreatedAgain(t)
        /\ Polled(tasks[t].instanceId, "LastOperation(deprovision)", "succeeded")
        /\ tasks[t].instanceId \notin DOMAIN InstanceMap

\* The state file holds a snapshot with a record of the instance.
SnapshotHas(instanceID) == stateFile.exists /\ instanceID \in DOMAIN stateFile.doc

FirstMountTargetNotAvailable(fsId) ==
    /\ fileSystems[fsId] # Absent
    /\ Len(mountTargets[fsId]) >= 1
    /\ mountTargets[fsId][1].state # LifeCycleStateAvailable

\* No other destroy request was accepted for the instance of request t.
OnlyDestroy(t) ==
    \A u \in Reqs \ {t} :
        ~(DestroyAccepted(u) /\ tasks[u].instanceId = tasks[t].instanceId)

C4_FailsAtOnce ==
    \A t \in Reqs :
        ( /\ DeprovisionDescribeMountTargets(t)
          /\ faults' = faults
          /\ FirstMountTargetNotAvailable(tasks[t].fsID) )
        => /\ tasks'[t].pc = "setErrorOnInstance"
           /\ tasks'[t].cause = ErrPrecondition

C4_FailedWorkflow ==
    \A t \in Reqs :
        (DestroyAccepted(t) /\ tasks[t].cause = ErrPrecondition) =>
            /\ tasks[t].calls = {}
            /\ tasks[t].pc \in {"setErrorOnInstance", "failed"}
            /\ (tasks[t].pc = "failed" /\ OnlyDestroy(t)) =>
                /\ tasks[t].instanceId \in DOMAIN InstanceMap
                /\ InstanceMap[tasks[t].instanceId].err
                /\ deprovisionState(tasks[t].instanceId) = "failed"

\* C4: a destroy workflow whose describe call lists a first mount target that
\* is not available takes the failure path at once; it calls neither
\* DeleteMountTarget nor DeleteFileSystem, and once it has ended, and as long
\* as it is the only destroy workflow of the instance, the instance is in the
\* instance map with its err flag set and LastOperation("deprovision")
\* answers Failed.
C4_UnavailableMountTargetFailsDestroy ==
    [][C4_FailsAtOnce]_vars /\ []C4_FailedWorkflow

C4_Witness ==
    \E t \in Reqs :
        /\ DestroyAccepted(t)
        /\ tasks[t].cause = ErrPrecondition
        /\ tasks[t].pc = "failed"
        /\ OnlyDestroy(t)
        /\ Polled(tasks[t].instanceId, "LastOperation(deprovision)", "failed")

\* C5 as stated: a destroy workflow to which the remote side answers that the
\* filesystem does not exist, on DeleteFileSystem or on the status call after
\* it, goes on to remove the instance record.
C5_MissingFileSystemIsSuccess ==
    [][\A t \in Reqs :
        ( /\ DeprovisionDeleteFileSystem(t) \/ DeprovisionGetFsStatus(t)
          /\ faults' = faults
          /\ fileSystems[tasks[t].fsID] = Absent )
        => tasks'[t].pc = "delete"]_vars

\* C6 as stated: a Provision for an id that is in the instance map is
\* rejected with ErrInstanceAlreadyExists exactly when its details differ
\* from the details the instance was created with.
C6_ConflictIffDetailsDiffer ==
    [][\A i \in Ids, p \in PlanIds :
        (ProvisionBegin(i, p, TRUE) /\ i \in DOMAIN InstanceMap) =>
            ( lastResult'.err = "ErrInstanceAlreadyExists"
              <=> InstanceMap[i].details # ProvisionDetails(p) )]_vars

\* C7 as stated: the snapshot persist writes of the instance map, read back,
\* is the instance map.
C7_RoundTrip == Unmarshal(persist(InstanceMap, "ok").doc) = InstanceMap

\* A step that reads or writes the maps can be taken by a goroutine that
\* does not hold the mutex.
MapAccessEnabled ==
    \/ \E i \in Ids :
        \/ ENABLED LastOperationDeprovision(i)
        \/ ENABLED LastOperationProvision(i)
        \/ ENABLED Deprovision(i)
        \/ ENABLED Bind(i)
        \/ ENABLED Unbind(i)
        \/ \E p \in PlanIds, a \in BOOLEAN : ENABLED ProvisionBegin(i, p, a)
    \/ \E t \in Reqs : ENABLED DeprovisionDelete(t) \/ ENABLED setErrorOnInstance(t)

\* C8 as stated: while a goroutine holds the mutex, no other goroutine can
\* read or write the maps.
C8_MapAccessUnderMutex == mutex # "free" => ~MapAccessEnabled

\* C9 as stated: the goroutine that holds the mutex is not in a call of the
\* remote API.
C9_NoRemoteCallUnderMutex == ~(mutex = "Provision" /\ prov.pc = "CreateFileSystem")

\* C10 as stated: when the mutex is free and no write of the state file has
\* failed, the snapshot read back is the instance map.
C10_SnapshotEqualsMaps ==
    (mutex = "free" /\ faults = MaxFaults) => Unmarshal(stateFile.doc) = InstanceMap
\* C11 as stated: when the broker is constructed again, its instance map is
\* the last persisted snapshot read back, and LastOperation("deprovision")
\* answers for every instance it knew what it answered before the restart.
C11_RestartKeepsOperationStatus ==
    [][Restart =>
        /\ InstanceMap' = Unmarshal(stateFile.doc)
        /\ \A i \in DOMAIN InstanceMap :
            deprovisionState(i)' = deprovisionState(i)]_vars
\* C12: when the CreateFileSystem call of a Provision fails (no filesystem is
\* created), Provision returns the error of the call, no goroutine is started
\* and the instance map is left as it was.
C12_FailedCreateFileSystemAddsNothing ==
    [][(ProvisionCreateFileSystem /\ fileSystems' = fileSystems) =>
        /\ lastResult' = Result("Provision", prov.instanceID, "", ErrRemote)
        /\ tasks' = tasks
        /\ InstanceMap' = InstanceMap]_vars

C12_Witness ==
    \E i \in Ids :
        /\ lastResult = Result("Provision", i, "", ErrRemote)
        /\ prov = Idle
        /\ i \notin DOMAIN InstanceMap
        /\ \A t \in Reqs : tasks[t] = NoTask
\* C13: a Deprovision for an id that is not in the instance map returns
\* ErrInstanceDoesNotExist, starts no goroutine and changes neither the maps,
\* the state file nor the remote side; a Deprovision for an id that is in the
\* map starts a deprovision goroutine for it and returns the asynchronous
\* "accepted" answer.
C13_DeprovisionNeedsInstance ==
    [][\A i \in Ids :
        Deprovision(i) =>
            IF i \notin DOMAIN InstanceMap
            THEN /\ lastResult' = Result("Deprovision", i, "", "ErrInstanceDoesNotExist")
                 /\ tasks' = tasks
                 /\ InstanceMap' = InstanceMap
                 /\ stateFile' = stateFile
                 /\ fileSystems' = fileSystems
                 /\ mountTargets' = mountTargets
            ELSE /\ lastResult' = Result("Deprovision", i, "accepted", NoErr)
                 /\ InstanceMap' = InstanceMap
                 /\ \E t \in Reqs :
                        /\ tasks[t] = NoTask
                        /\ tasks'[t].kind = "deprovision"
                        /\ tasks'[t].instanceId = i
                        /\ tasks'[t].fsID = InstanceMap[i].EfsId]_vars

C13_Witness ==
    \E i \in Ids, t \in Reqs :
        /\ lastResult = Result("Deprovision", i, "", "ErrInstanceDoesNotExist")
        /\ DestroyAccepted(t)
        /\ tasks[t].instanceId = i
        /\ tasks[t].pc = "done"
\* C14: LastOperation("deprovision") returns no error, and its answer is
\* Succeeded exactly when the id is not in the instance map, Failed exactly
\* when the record is there with err set, and InProgress exactly when the
\* record is there with err clear.
C14_PollDestroyReadsRecord ==
    [][\A i \in Ids :
        LastOperationDeprovision(i) =>
            /\ lastResult'.err = NoErr
            /\ lastResult'.state \in {"succeeded", "failed", "in progress"}
            /\ lastResult'.state = "succeeded" <=> i \notin DOMAIN InstanceMap
            /\ lastResult'.state = "failed" <=>
                    (i \in DOMAIN InstanceMap /\ InstanceMap[i].err)
            /\ lastResult'.state = "in progress" <=>
                    (i \in DOMAIN InstanceMap /\ ~InstanceMap[i].err)]_vars

C14_Witness ==
    \E i \in Ids :
        /\ Polled(i, "LastOperation(deprovision)", "failed")
        /\ i \in DOMAIN InstanceMap
        /\ InstanceMap[i].err
        /\ \E t \in Reqs : DestroyAccepted(t) /\ tasks[t].pc = "failed"
\* A step in which LastOperation("provision") answers after a describe call.
PollCreateAnswers ==
    /\ LastOperationGetFsStatus \/ LastOperationGetMountsStatus
    /\ poll'.pc = "idle"

\* C15 as stated: for an instance that is in the map, LastOperation("provision")
\* answers with an operation status, InProgress, Succeeded or Failed, and a
\* describe call that returns an error gives Failed.
C15_PollCreateAlwaysGivesStatus ==
    [][PollCreateAnswers =>
        /\ lastResult'.err = NoErr
        /\ lastResult'.state \in {"in progress", "succeeded", "failed"}
        /\ faults' # faults => lastResult'.state = "failed"]_vars
\* C16: LastOperation("provision") for an id that is not in the instance map
\* returns ErrInstanceDoesNotExist at once: it goes on to no describe call and
\* changes nothing.
C16_PollCreateUnknownInstance ==
    [][\A i \in Ids :
        (LastOperationProvision(i) /\ i \notin DOMAIN InstanceMap) =>
            /\ lastResult' = Result("LastOperation(provision)", i, "",
                                    "ErrInstanceDoesNotExist")
            /\ poll' = PollIdle
            /\ UNCHANGED <<InstanceMap, stateFile, fileSystems, mountTargets,
                           tasks, faults>>]_vars

C16_Witness ==
    \E i \in Ids, t \in Reqs :
        /\ lastResult = Result("LastOperation(provision)", i, "",
                               "ErrInstanceDoesNotExist")
        /\ DestroyAccepted(t)
        /\ tasks[t].instanceId = i
        /\ tasks[t].pc = "done"
        /\ i \notin DOMAIN InstanceMap
\* The filesystem is available and its first-listed mount target is too.
FileSystemAndMountTargetAvailable(fsId) ==
    /\ fileSystems[fsId] = LifeCycleStateAvailable
    /\ Len(mountTargets[fsId]) >= 1
    /\ mountTargets[fsId][1].state = LifeCycleStateAvailable

\* C17: LastOperation("provision") answers Succeeded only from its describe
\* of the mount targets, and only when at that moment the filesystem is
\* available and its first-listed mount target is available; when the
\* describe succeeds and lists no mount target the answer is InProgress.
C17_NoPrematureSuccess ==
    [][/\ (LastOperationGetFsStatus /\ poll'.pc = "idle") =>
            lastResult'.state # "succeeded"
       /\ LastOperationGetMountsStatus =>
            /\ lastResult'.state = "succeeded" =>
                    FileSystemAndMountTargetAvailable(poll.fsId)
            /\ ( /\ faults' = faults
                 /\ fileSystems[poll.fsId] # Absent
                 /\ Len(mountTargets[poll.fsId]) = 0 ) =>
                    lastResult' = Result("LastOperation(provision)",
                                         poll.instanceID, "in progress", NoErr)]_vars

C17_Witness ==
    \E i \in Ids :
        /\ i \in DOMAIN InstanceMap
        /\ fileSystems[InstanceMap[i].EfsId] = LifeCycleStateAvailable
        /\ Len(mountTargets[InstanceMap[i].EfsId]) = 0
        /\ \E t \in Reqs :
            /\ CreateAccepted(t)
            /\ tasks[t].instanceId = i
            /\ tasks[t].pc = "done"
        /\ poll = PollIdle
        /\ Polled(i, "LastOperation(provision)", "in progress")
\* The goroutine of request t was started and has not ended.
InFlight(t) == tasks[t].kind # "none" /\ tasks[t].pc \notin {"done", "failed"}

\* C18 as stated: no two goroutines, createMountTargets or deprovision, are
\* in flight for one instance id.
C18_OneTaskPerInstance ==
    \A t \in Reqs, u \in Reqs :
        (t # u /\ InFlight(t) /\ InFlight(u)) =>
            tasks[t].instanceId # tasks[u].instanceId
\* The remote side has finished the deletion of the filesystem and of all its
\* mount targets.
RemoteDeletionComplete(fsId) ==
    /\ fileSystems[fsId] \in {LifeCycleStateDeleted, Absent}
    /\ \A k \in 1..Len(mountTargets[fsId]) :
            mountTargets[fsId][k].state = LifeCycleStateDeleted

\* C19 as stated: a record leaves the instance map only in the last step of a
\* deprovision goroutine of that instance, after the remote deletion of the
\* mount targets and of the filesystem is complete; and a deprovision
\* goroutine that fails leaves the record in the map with err set.
C19_RecordStaysUntilDestroyed ==
    [][/\ \A i \in DOMAIN InstanceMap :
            i \notin DOMAIN InstanceMap' =>
                \E t \in Reqs :
                    /\ DeprovisionDelete(t)
                    /\ tasks[t].instanceId = i
                    /\ RemoteDeletionComplete(tasks[t].fsID)
       /\ \A t \in Reqs :
            setErrorOnInstance(t) =>
                /\ tasks[t].instanceId \in DOMAIN InstanceMap'
                /\ InstanceMap'[tasks[t].instanceId].err]_vars
\* The step of deprovision goroutine t is a step of the destroy workflow that
\* fails: the describe of the mount targets (an error, or a first target
\* that is not available), DeleteMountTarget, DeleteFileSystem, or a status
\* call of the filesystem wait loop with an error other than "does not exist".
DestroyStepFails(t) ==
    LET fs == tasks[t].fsID
    IN  \/ /\ DeprovisionDescribeMountTargets(t)
           /\ \/ faults' # faults
              \/ fileSystems[fs] = Absent
              \/ FirstMountTargetNotAvailable(fs)
        \/ /\ DeprovisionDeleteMountTarget(t)
           /\ \/ faults' # faults
              \/ IndexOf(mountTargets[fs], tasks[t].mtId) = 0
        \/ /\ DeprovisionDeleteFileSystem(t)
           /\ \/ faults' # faults
              \/ RemoteDeleteFileSystem(fs, "ok")[2] # NoErr
        \/ /\ DeprovisionGetFsStatus(t)
           /\ faults' # faults

\* C20: a deprovision goroutine of which a step fails goes to
\* setErrorOnInstance; setErrorOnInstance runs with the mutex, removes no
\* record and sets err on the record of the instance if it is in the map;
\* and from the failed step on the goroutine makes no remote call and takes
\* no step but setErrorOnInstance.
C20_FailedDestroyStepSetsFlagAndStops ==
    [][\A t \in Reqs :
        /\ DestroyStepFails(t) => tasks'[t].pc = "setErrorOnInstance"
        /\ setErrorOnInstance(t) =>
            /\ mutex = "free"
            /\ DOMAIN InstanceMap' = DOMAIN InstanceMap
            /\ tasks[t].instanceId \in DOMAIN InstanceMap =>
                    InstanceMap'[tasks[t].instanceId].err
            /\ tasks'[t].pc = "failed"
        /\ (DestroyAccepted(t) /\ tasks[t].pc \in {"setErrorOnInstance", "failed"}) =>
            \/ tasks'[t] = NoTask
            \/ /\ tasks'[t].pc \in {"setErrorOnInstance", "failed"}
               /\ tasks'[t].calls = tasks[t].calls
               /\ tasks'[t].pc = "setErrorOnInstance" => tasks'[t] = tasks[t]
               /\ tasks[t].pc = "failed" => tasks'[t] = tasks[t]]_vars

C20_Witness ==
    \E t \in Reqs :
        /\ DestroyAccepted(t)
        /\ tasks[t].pc = "failed"
        /\ tasks[t].cause = ErrRemote
        /\ tasks[t].calls = {"DeleteMountTarget"}
        /\ tasks[t].instanceId \in DOMAIN InstanceMap
        /\ InstanceMap[tasks[t].instanceId].err
\* ----------------------------------------------------------------- C21
\* The request passes the tests Bind makes before the conflict test: the
\* instance is known, the app GUID is given, the parameters are a JSON
\* object and "readonly", if given, is a boolean.
PassesBindTests(instanceID, details) ==
    /\ instanceID \in DOMAIN nfsbroker.dynamic.InstanceMap
    /\ details.AppGUID # ""
    /\ details.RawParameters.json = "object"
    /\ evaluateMode(ObjectOf(details.RawParameters.members)).err = Nil

\* The step is a call of Bind; nfsbroker'.result holds its arguments.
BindStep ==
    /\ nfsbroker'.result.op = "Bind"
    /\ NfsBind(nfsbroker'.result.instanceID, nfsbroker'.result.bindingID,
               nfsbroker'.result.details)

\* C21: a Bind that reuses a binding id with the details stored for it is
\* not answered ErrBindingAlreadyExists; a Bind that reuses a binding id
\* with other details (and passes the tests made before the conflict test)
\* is answered ErrBindingAlreadyExists and leaves both maps as they were.
C21_BindConflictRule ==
    [][(/\ BindStep
        /\ nfsbroker'.result.bindingID \in DOMAIN nfsbroker.dynamic.BindingMap) =>
            LET b == nfsbroker'.result.bindingID
                details == nfsbroker'.result.details
            IN  /\ details = nfsbroker.dynamic.BindingMap[b] =>
                    /\ nfsbroker'.result.err # ErrBindingAlreadyExists
                    /\ nfsbroker'.dynamic.BindingMap[b] = details
                /\ (/\ details # nfsbroker.dynamic.BindingMap[b]
                    /\ PassesBindTests(nfsbroker'.result.instanceID, details)) =>
                    /\ nfsbroker'.result.err = ErrBindingAlreadyExists
                    /\ nfsbroker'.dynamic = nfsbroker.dynamic]_vars

\* A Bind was answered ErrBindingAlreadyExists and the binding id still has
\* the other details.
C21_Witness ==
    /\ nfsbroker.result.op = "Bind"
    /\ nfsbroker.result.err = ErrBindingAlreadyExists
    /\ nfsbroker.result.bindingID \in DOMAIN nfsbroker.dynamic.BindingMap
    /\ nfsbroker.dynamic.BindingMap[nfsbroker.result.bindingID]
            # nfsbroker.result.details
\* ----------------------------------------------------------------- C22
\* filterArgs has returned in the Bind call that is followed.
FilterArgsReturned ==
    /\ nfsbroker.myCnf.pc \in {"getMountConfig", "done"}
    /\ nfsbroker.myCnf.failed # "getConf"

\* The error filterArgs returned.
FilterArgsErr ==
    IF nfsbroker.myCnf.failed = "filterArgs" THEN nfsbroker.myCnf.err ELSE Nil

\* The keys the configuration file allows, as mount or as source options.
ConfiguredKeys ==
    DOMAIN getConf(nfsbroker.configYaml).config.mountOptions
        \cup DOMAIN getConf(nfsbroker.configYaml).config.sourceOptions

\* The bind parameters with a value other than the empty string whose key
\* is neither ignored nor configured.
UnknownKeys ==
    {k \in DOMAIN nfsbroker.myCnf.parameters :
        /\ nfsbroker.myCnf.parameters[k] # GoString(<<>>)
        /\ ~ignoreBindOpt(k)
        /\ k \notin ConfiguredKeys}

\* Sloppy mount is enabled by the configuration, or by a sloppy_mount
\* parameter that is allowed and true.
SloppyEnabled ==
    \/ getConf(nfsbroker.configYaml).config.sloppyMount
    \/ /\ "sloppy_mount" \in DOMAIN nfsbroker.myCnf.parameters
       /\ "sloppy_mount" \in ConfiguredKeys
       /\ nfsbroker.myCnf.parameters["sloppy_mount"]
            \in {GoBool(TRUE), GoString(TextTrue)}

\* C22: when a bind parameter with a non-empty value has a key that is
\* neither ignored nor configured, filterArgs returns the error that names
\* the key, unless sloppy mount is enabled: then it returns no error and the
\* key is in neither option map.
C22_UnknownOptionRejectedUnlessSloppy ==
    (FilterArgsReturned /\ UnknownKeys # {}) =>
        IF SloppyEnabled
        THEN /\ FilterArgsErr = Nil
             /\ \A k \in UnknownKeys :
                    /\ k \notin DOMAIN nfsbroker.myCnf.config.mountOptions
                    /\ k \notin DOMAIN nfsbroker.myCnf.config.sourceOptions
        ELSE /\ FilterArgsErr.msg = "Incompatibles bind options"
             /\ \A k \in UnknownKeys :
                    \E n \in DOMAIN FilterArgsErr.keys : FilterArgsErr.keys[n] = k
\* ----------------------------------------------------------------- C23
\* makeShare has run in the Bind call that is followed, and its filter of
\* the query of the share has not failed.
MakeShareRan ==
    /\ nfsbroker.myCnf.pc = "done"
    /\ nfsbroker.myCnf.failed \notin {"getConf", "filterArgs"}
    /\ nfsbroker.myCnf.err.msg # "Incompatibles bind options"

\* The source options have a value for k that is not empty and not "0".
Supplied(k) ==
    /\ k \in DOMAIN nfsbroker.myCnf.config.sourceOptions
    /\ nfsbroker.myCnf.config.sourceOptions[k] # <<>>
    /\ nfsbroker.myCnf.config.sourceOptions[k] # <<"0">>

\* The value of source option k is the default of the configuration file.
FromDefault(k) ==
    /\ k \in DOMAIN getConf(nfsbroker.configYaml).config.sourceOptions
    /\ nfsbroker.myCnf.config.sourceOptions[k]
            = getConf(nfsbroker.configYaml).config.sourceOptions[k]

\* The query of the share URL has the text "k=v".
QueryHas(k, v) ==
    \E n \in DOMAIN nfsbroker.myCnf.mountConfig["source"].val.query :
        nfsbroker.myCnf.mountConfig["source"].val.query[n] = Entry(k, "=", v)

\* C23: makeShare fails unless the source options have a uid and a gid that
\* are not empty and not "0"; when it succeeds with the uid, resp. the gid,
\* of the configuration file, the query of the share URL has "uid=<value>",
\* resp. "gid=<value>".
C23_ShareNeedsUidAndGid ==
    MakeShareRan =>
        /\ (nfsbroker.myCnf.err = Nil) <=> (Supplied("uid") /\ Supplied("gid"))
        /\ nfsbroker.myCnf.err = Nil =>
            \A k \in {"uid", "gid"} :
                FromDefault(k) =>
                    QueryHas(k, nfsbroker.myCnf.config.sourceOptions[k])
\* ----------------------------------------------------------------- C24
\* C24: the createMountTargets goroutine goes on from its wait loop to
\* CreateMountTarget only when the getFsStatus call it has just made did not
\* fail and returned "available".
C24_CreateMountTargetOnlyWhenAvailable ==
    [][\A t \in Reqs :
        (CreateMountTargetsGetFsStatus(t) /\ tasks'[t].pc = "CreateMountTarget") =>
            /\ faults' = faults
            /\ fileSystems[tasks[t].fsID] = LifeCycleStateAvailable]_vars

\* ----------------------------------------------------------------- C25
\* A describe call of a wait loop of goroutine t (the filesystem loop of
\* createMountTargets, the mount target loop and the filesystem loop of
\* deprovision) that fails transiently.
PollDescribeFails(t) ==
    /\ \/ CreateMountTargetsGetFsStatus(t)
       \/ DeprovisionGetMountsStatus(t)
       \/ DeprovisionGetFsStatus(t)
    /\ faults' # faults

\* C25: a describe call of a wait loop that fails transiently leaves the
\* goroutine in its loop, to call again: it goes on neither to the step after
\* the loop nor to setErrorOnInstance.
C25_TransientDescribeFailureIsRetried ==
    [][\A t \in Reqs : PollDescribeFails(t) => tasks'[t] = tasks[t]]_vars

\* ----------------------------------------------------------------- C27
\* C27: when the deprovision goroutine calls DeleteFileSystem, every mount
\* target the remote side has for the filesystem is in state "deleted".
C27_DeleteFileSystemAfterMountTargetsGone ==
    [][\A t \in Reqs :
        DeprovisionDeleteFileSystem(t) =>
            \A k \in 1..Len(mountTargets[tasks[t].fsID]) :
                mountTargets[tasks[t].fsID][k].state = LifeCycleStateDeleted]_vars
\* ----------------------------------------------------------------- C26
\* The createMountTargets goroutine of request t has ended and its
\* CreateMountTarget call had failed.
CreateMountTargetFailed(t) ==
    /\ tasks[t].kind = "createMountTargets"
    /\ tasks[t].pc = "done"
    /\ tasks[t].cause # NoErr

\* The filesystem is available and has no mount target.
AvailableWithoutMountTarget(fsId) ==
    /\ fileSystems[fsId] = LifeCycleStateAvailable
    /\ Len(mountTargets[fsId]) = 0

\* C26: a createMountTargets goroutine whose CreateMountTarget call fails
\* ends there and leaves the instance map, the err flag included, as it was;
\* afterwards, while the filesystem is available and has no mount target, a
\* LastOperation("provision") of the instance answers neither Failed nor
\* Succeeded, and InProgress whenever its describe calls are answered.
C26_FailedCreateMountTargetStaysInProgress ==
    [][/\ \A t \in Reqs :
            (CreateMountTargetsCreate(t) /\ mountTargets' = mountTargets) =>
                /\ tasks'[t].pc = "done"
                /\ tasks'[t].cause # NoErr
                /\ InstanceMap' = InstanceMap
       /\ \A t \in Reqs :
            ( /\ CreateMountTargetFailed(t)
              /\ AvailableWithoutMountTarget(tasks[t].fsID)
              /\ PollCreateAnswers
              /\ poll.fsId = tasks[t].fsID ) =>
                /\ lastResult'.state \notin {"failed", "succeeded"}
                /\ faults' = faults =>
                    lastResult' = Result("LastOperation(provision)",
                                         poll.instanceID, "in progress", NoErr)]_vars

C26_Witness ==
    \E t \in Reqs :
        /\ CreateMountTargetFailed(t)
        /\ AvailableWithoutMountTarget(tasks[t].fsID)
        /\ tasks[t].instanceId \in DOMAIN InstanceMap
        /\ InstanceMap[tasks[t].instanceId].EfsId = tasks[t].fsID
        /\ ~InstanceMap[tasks[t].instanceId].err
        /\ poll = PollIdle
        /\ lastResult = Result("LastOperation(provision)", tasks[t].instanceId,
                               "in progress", NoErr)
\* ----------------------------------------------------------------- C28
\* The describe call of deleteMountTargets in deprovision goroutine t is
\* answered and lists no mount target.
DescribesNoMountTarget(t) ==
    /\ DeprovisionDescribeMountTargets(t)
    /\ faults' = faults
    /\ fileSystems[tasks[t].fsID] # Absent
    /\ Len(mountTargets[tasks[t].fsID]) = 0

\* Deprovision goroutine t is past a deleteMountTargets that found no mount
\* target: it chose none to delete and did not fail there.
SkippedMountTargetDeletion(t) ==
    /\ tasks[t].kind = "deprovision"
    /\ tasks[t].mtId = 0
    /\ tasks[t].pc \in {"getMountsStatus", "DeleteFileSystem"}

\* C28: when the describe call of deleteMountTargets is answered with no
\* mount target, the step is no failure: the goroutine goes on to the wait
\* loop with no error and without a DeleteMountTarget call, the instance map
\* stays as it was, and from the wait loop, as long as there is still no
\* mount target, it goes on to DeleteFileSystem; it never calls
\* DeleteMountTarget.
C28_NoMountTargetIsSuccess ==
    [][\A t \in Reqs :
        /\ DescribesNoMountTarget(t) =>
            /\ tasks'[t] = [tasks[t] EXCEPT !.pc = "getMountsStatus"]
            /\ tasks[t].cause = NoErr
            /\ "DeleteMountTarget" \notin tasks[t].calls
            /\ InstanceMap' = InstanceMap
        /\ (SkippedMountTargetDeletion(t) /\ tasks'[t] # tasks[t]) =>
            /\ tasks'[t].pc # "DeleteMountTarget"
            /\ "DeleteMountTarget" \notin tasks'[t].calls
            /\ ( /\ DeprovisionGetMountsStatus(t)
                 /\ Len(mountTargets[tasks[t].fsID]) = 0 ) =>
                    tasks'[t].pc = "DeleteFileSystem"
            /\ DeprovisionDeleteFileSystem(t) =>
                    "DeleteFileSystem" \in tasks'[t].calls]_vars

C28_Witness ==
    \E t \in Reqs :
        /\ tasks[t].kind = "deprovision"
        /\ tasks[t].mtId = 0
        /\ tasks[t].calls = {"DeleteFileSystem"}
        /\ tasks[t].cause = NoErr
        /\ tasks[t].instanceId \in DOMAIN InstanceMap
        /\ ~InstanceMap[tasks[t].instanceId].err
        /\ faults = MaxFaults
\* ----------------------------------------------------------------- C29
\* The answer LastOperation("provision") gives when getStatus returns the
\* given state and no error.
StatusAnswer(state) ==
    Result("LastOperation(provision)", poll.instanceID,
           awsStateToLastOperation(state), NoErr)

\* C29: when the describe of the filesystem is answered with a state other
\* than "available", getStatus returns that state and does not describe the
\* mount targets; when it is answered "available", getStatus goes on to
\* describe the mount targets, and if that call is answered with at least
\* one mount target, getStatus returns the state of the first-listed one.
C29_CombinedStatus ==
    [][/\ ( /\ LastOperationGetFsStatus
            /\ faults' = faults
            /\ fileSystems[poll.fsId] # Absent ) =>
                IF fileSystems[poll.fsId] # LifeCycleStateAvailable
                THEN /\ lastResult' = StatusAnswer(fileSystems[poll.fsId])
                     /\ poll' = PollIdle
                ELSE /\ poll' = [poll EXCEPT !.pc = "getMountsStatus"]
                     /\ lastResult' = lastResult
       /\ ( /\ LastOperationGetMountsStatus
            /\ faults' = faults
            /\ fileSystems[poll.fsId] # Absent
            /\ Len(mountTargets[poll.fsId]) >= 1 ) =>
                /\ lastResult' = StatusAnswer(mountTargets[poll.fsId][1].state)
                /\ poll' = PollIdle]_vars

\* LastOperation("provision") has answered Failed for an instance whose
\* filesystem is available and whose first mount target is being deleted.
C29_Witness ==
    \E i \in Ids :
        /\ i \in DOMAIN InstanceMap
        /\ fileSystems[InstanceMap[i].EfsId] = LifeCycleStateAvailable
        /\ Len(mountTargets[InstanceMap[i].EfsId]) >= 1
        /\ mountTargets[InstanceMap[i].EfsId][1].state = LifeCycleStateDeleting
        /\ poll = PollIdle
        /\ lastResult = Result("LastOperation(provision)", i, "failed", NoErr)
\* ----------------------------------------------------------------- C30
\* The state file after a step that persists the instance map it leaves:
\* rewritten from the map, or as before if the step spent a failure on
\* WriteFile.
Persisted(writeFailed) ==
    stateFile' = IF writeFailed THEN stateFile
                 ELSE [exists |-> TRUE, doc |-> Marshal(InstanceMap')]

\* C30: a Provision and the last step of a successful deprovision return the
\* same result and leave the same instance map whether WriteFile fails or
\* not; a failed WriteFile only leaves the state file as it was.
C30_PersistFailureNotEscalated ==
    [][/\ \A i \in Ids, p \in PlanIds, a \in BOOLEAN :
            (ProvisionBegin(i, p, a) /\ prov' = prov) =>
                /\ lastResult' = Result("Provision", i, "",
                        IF ~a THEN "ErrAsyncRequired"
                        ELSE "ErrInstanceAlreadyExists")
                /\ InstanceMap' = InstanceMap
                /\ Persisted(faults' # faults)
       /\ (ProvisionCreateFileSystem /\ fileSystems' # fileSystems) =>
            /\ lastResult' = Result("Provision", prov.instanceID, "accepted", NoErr)
            /\ DOMAIN InstanceMap' = DOMAIN InstanceMap \cup {prov.instanceID}
            /\ InstanceMap'[prov.instanceID] =
                    EFSInstance(ProvisionDetails(prov.plan), prov.req, FALSE)
            /\ tasks'[prov.req].kind = "createMountTargets"
            /\ mutex' = "free"
            /\ Persisted(faults' # faults)
       /\ (ProvisionCreateFileSystem /\ fileSystems' = fileSystems) =>
            /\ lastResult' = Result("Provision", prov.instanceID, "", ErrRemote)
            /\ InstanceMap' = InstanceMap
            /\ Persisted(faults' < faults - 1)
       /\ \A t \in Reqs :
            DeprovisionDelete(t) =>
                /\ DOMAIN InstanceMap' = DOMAIN InstanceMap \ {tasks[t].instanceId}
                /\ \A i \in DOMAIN InstanceMap' : InstanceMap'[i] = InstanceMap[i]
                /\ tasks'[t].pc = "done"
                /\ lastResult' = lastResult
                /\ Persisted(faults' # faults)]_vars

\* A Provision was accepted and its WriteFile failed: the instance is in the
\* map and not in the state file.
C30_Witness ==
    \E i \in Ids :
        /\ lastResult = Result("Provision", i, "accepted", NoErr)
        /\ i \in DOMAIN InstanceMap
        /\ i \notin DOMAIN stateFile.doc
        /\ stateFile.exists
        /\ faults < MaxFaults
\* ----------------------------------------------------------------- C31
\* A createMountTargets goroutine of instance i has not ended.
CreateInProgress(i) ==
    \E t \in Reqs :
        /\ tasks[t].kind = "createMountTargets"
        /\ tasks[t].instanceId = i
        /\ tasks[t].pc \in {"getFsStatus", "CreateMountTarget"}

\* C31: a Deprovision of an instance that is in the map is accepted and
\* starts a deprovision goroutine also while a createMountTargets goroutine
\* of the instance has not ended, and a createMountTargets goroutine whose
\* describe call is answered with the state "deleting" or "deleted" goes on
\* to CreateMountTarget.
C31_DestroyDuringCreate ==
    [][/\ \A i \in Ids :
            ( /\ Deprovision(i)
              /\ i \in DOMAIN InstanceMap
              /\ CreateInProgress(i) ) =>
                /\ lastResult' = Result("Deprovision", i, "accepted", NoErr)
                /\ tasks'[nreq'].kind = "deprovision"
                /\ tasks'[nreq'].instanceId = i
                /\ tasks'[nreq'].fsID = InstanceMap[i].EfsId
                /\ CreateInProgress(i)'
       /\ \A t \in Reqs :
            ( /\ CreateMountTargetsGetFsStatus(t)
              /\ faults' = faults
              /\ fileSystems[tasks[t].fsID]
                    \in {LifeCycleStateDeleting, LifeCycleStateDeleted} ) =>
                tasks'[t].pc = "CreateMountTarget"]_vars

\* The createMountTargets goroutine has called CreateMountTarget, which the
\* remote side refused although no failure was injected, on a filesystem on
\* which a deprovision goroutine had called DeleteFileSystem.
C31_Witness ==
    \E t \in Reqs, u \in Reqs :
        /\ tasks[t].kind = "createMountTargets"
        /\ tasks[t].pc = "done"
        /\ "CreateMountTarget" \in tasks[t].calls
        /\ tasks[t].cause # NoErr
        /\ faults = MaxFaults
        /\ tasks[u].kind = "deprovision"
        /\ tasks[u].fsID = tasks[t].fsID
        /\ "DeleteFileSystem" \in tasks[u].calls
\* ----------------------------------------------------------------- C32
\* C32: in a reliable environment, where every remote call is answered and
\* the remote side finishes every deletion it was asked for, every deprovision
\* goroutine ends: it removes the record (done) or has run
\* setErrorOnInstance (failed).
C32_DestroyTerminates ==
    \A t \in Reqs :
        DestroyAccepted(t) ~> (tasks[t].pc \in {"done", "failed"})
\* ----------------------------------------------------------------- C33
\* LastOperation("deprovision") has answered for instance i with the state.
PollDestroyAnswered(i, state) == Polled(i, "LastOperation(deprovision)", state)

\* C33 as stated: once LastOperation("deprovision") has answered Failed for
\* an id, it never answers InProgress for that id again.
C33_FailedNeverInProgressAgain ==
    \A i \in Ids :
        [](PollDestroyAnswered(i, "failed") =>
            [](~PollDestroyAnswered(i, "in progress")))

\* C33: the err flag of a record is not cleared while the record stays in
\* the instance map, whatever the step, and LastOperation("deprovision")
\* answers Failed for a record whose flag is set; so after Failed the answer
\* is InProgress only for a record that was created after the flagged one
\* left the map.
C33_FlagStaysWhileRecordStays ==
    [][\A i \in Ids :
        (i \in DOMAIN InstanceMap /\ InstanceMap[i].err) =>
            /\ i \in DOMAIN InstanceMap' => InstanceMap'[i].err
            /\ LastOperationDeprovision(i) =>
                    lastResult' = Result("LastOperation(deprovision)", i,
                                         "failed", NoErr)]_vars

\* A Provision for an id whose record has the flag set was rejected and the
\* flag is still set.
C33_Witness ==
    \E i \in Ids, t \in Reqs :
        /\ i \in DOMAIN InstanceMap
        /\ InstanceMap[i].err
        /\ lastResult = Result("Provision", i, "", "ErrInstanceAlreadyExists")
        /\ DestroyAccepted(t)
        /\ tasks[t].instanceId = i
        /\ tasks[t].pc = "failed"
        /\ t < nreq
\* ----------------------------------------------------------------- C34
\* C34: a Provision with asyncAllowed = false returns ErrAsyncRequired and
\* does not go on to CreateFileSystem: the mutex is released, the instance
\* map, the goroutines and the remote side are as before.
C34_AsyncRequired ==
    [][\A i \in Ids, p \in PlanIds :
        ProvisionBegin(i, p, FALSE) =>
            /\ lastResult' = Result("Provision", i, "", "ErrAsyncRequired")
            /\ prov' = Idle
            /\ mutex' = "free"
            /\ UNCHANGED <<InstanceMap, tasks, fileSystems, mountTargets>>]_vars

\* The first request was a Provision without asyncAllowed: nothing was
\* created.
C34_Witness ==
    \E i \in Ids :
        /\ lastResult = Result("Provision", i, "", "ErrAsyncRequired")
        /\ nreq = 1
        /\ prov = Idle
        /\ InstanceMap = EmptyMap
        /\ \A t \in Reqs : tasks[t] = NoTask /\ fileSystems[t] = Absent
\* ----------------------------------------------------------------- C35
\* C35: a Bind that returns an error leaves the binding map as it was, in
\* memory and in the store.
C35_FailedBindChangesNothing ==
    [][(BindStep /\ nfsbroker'.result.err \notin {Nil, Panic}) =>
            /\ nfsbroker'.dynamic.BindingMap = nfsbroker.dynamic.BindingMap
            /\ nfsbroker'.store.BindingMap = nfsbroker.store.BindingMap]_vars
\* ----------------------------------------------------------------- C36
\* The step is a call of Deprovision of the NFS broker; nfsbroker'.result
\* holds its argument.
DeprovisionStep ==
    /\ nfsbroker'.result.op = "Deprovision"
    /\ NfsDeprovision(nfsbroker'.result.instanceID)

\* C36: a Deprovision of an id that is in the instance map returns no error,
\* removes that id and no other from the instance map, leaves the binding
\* map as it was and saves the state; a Deprovision of an id that is not in
\* the map returns ErrInstanceDoesNotExist and changes nothing.
C36_DeprovisionKeepsBindings ==
    [][DeprovisionStep =>
        LET i == nfsbroker'.result.instanceID
        IN  IF i \in DOMAIN nfsbroker.dynamic.InstanceMap
            THEN /\ nfsbroker'.result.err = Nil
                 /\ nfsbroker'.dynamic.InstanceMap =
                        MapDelete(nfsbroker.dynamic.InstanceMap, i)
                 /\ i \notin DOMAIN nfsbroker'.dynamic.InstanceMap
                 /\ nfsbroker'.dynamic.BindingMap = nfsbroker.dynamic.BindingMap
                 /\ Restore(nfsbroker'.store) = nfsbroker'.dynamic
            ELSE /\ nfsbroker'.result.err = ErrInstanceDoesNotExist
                 /\ nfsbroker'.dynamic = nfsbroker.dynamic
                 /\ nfsbroker'.store = nfsbroker.store]_vars

\* A second Deprovision of the id was answered ErrInstanceDoesNotExist, and
\* a binding made for the instance is still in the binding map and in the
\* store.
C36_Witness ==
    /\ nfsbroker.result.op = "Deprovision"
    /\ nfsbroker.result.err = ErrInstanceDoesNotExist
    /\ nfsbroker.result.instanceID \notin DOMAIN nfsbroker.dynamic.InstanceMap
    /\ DOMAIN nfsbroker.dynamic.BindingMap # {}
    /\ nfsbroker.store = nfsbroker.dynamic
\* ----------------------------------------------------------------- C37
\* The step is a call of Unbind of the NFS broker; nfsbroker'.result holds
\* its arguments.
UnbindStep ==
    /\ nfsbroker'.result.op = "Unbind"
    /\ NfsUnbind(nfsbroker'.result.instanceID, nfsbroker'.result.bindingID)

\* C37: Unbind with an instance id that is not in the instance map returns
\* ErrInstanceDoesNotExist; with a known instance and a binding id that is
\* not in the binding map it returns ErrBindingDoesNotExist; in both cases
\* both maps stay as they were.  Otherwise it returns no error, removes that
\* binding and no other, and leaves the instance map as it was.
C37_UnbindRemovesKnownBindingOnly ==
    [][UnbindStep =>
        LET i == nfsbroker'.result.instanceID
            b == nfsbroker'.result.bindingID
        IN  IF i \notin DOMAIN nfsbroker.dynamic.InstanceMap
            THEN /\ nfsbroker'.result.err = ErrInstanceDoesNotExist
                 /\ nfsbroker'.dynamic = nfsbroker.dynamic
            ELSE IF b \notin DOMAIN nfsbroker.dynamic.BindingMap
            THEN /\ nfsbroker'.result.err = ErrBindingDoesNotExist
                 /\ nfsbroker'.dynamic = nfsbroker.dynamic
            ELSE /\ nfsbroker'.result.err = Nil
                 /\ nfsbroker'.dynamic.BindingMap =
                        MapDelete(nfsbroker.dynamic.BindingMap, b)
                 /\ b \notin DOMAIN nfsbroker'.dynamic.BindingMap
                 /\ nfsbroker'.dynamic.InstanceMap = nfsbroker.dynamic.InstanceMap]_vars

\* An Unbind for an instance that is gone was refused, and the binding it
\* named is still in the binding map.
C37_Witness ==
    /\ nfsbroker.result.op = "Unbind"
    /\ nfsbroker.result.err = ErrInstanceDoesNotExist
    /\ nfsbroker.result.instanceID \notin DOMAIN nfsbroker.dynamic.InstanceMap
    /\ nfsbroker.result.bindingID \in DOMAIN nfsbroker.dynamic.BindingMap
\* ----------------------------------------------------------------- C38
\* C38: a successful Bind returns the binding (the VolumeId with the hash of
\* the mount configuration, and the source URL in it) that Bind computes for
\* its arguments in every order of iteration of the option maps.
C38_BindDeterministic ==
    [][(BindStep /\ nfsbroker'.result.err = Nil) =>
        \A argOrder \in Perms(ParameterKeys(nfsbroker'.result.details)),
           srcOrder \in Perms(SourceKeys(nfsbroker.configYaml)) :
            BindReturn(nfsbroker, nfsbroker'.result.instanceID,
                       nfsbroker'.result.bindingID, nfsbroker'.result.details,
                       argOrder, srcOrder).binding
                = nfsbroker'.result.binding]_vars
\* ----------------------------------------------------------------- C39
\* getConf, with its two calls of parseConfig, has just returned or failed.
GetConfEnded ==
    nfsbroker.myCnf.pc = "filterArgs" \/ nfsbroker.myCnf.failed = "getConf"

\* The map holds, for every entry of the text with a key that is not empty,
\* the value of the entry under its key, and nothing else.
MapOfEntries(map, entries) ==
    /\ DOMAIN map = {entries[n].key : n \in DOMAIN entries} \ {""}
    /\ \A n \in DOMAIN entries :
            entries[n].key # "" => map[entries[n].key] = entries[n].val

\* C39: parseConfig does not fail, whatever the entries, and returns the map
\* of the entries with a non-empty key, each with the text after its ":"
\* (the empty text when there is none).
C39_ParseConfigTotal ==
    GetConfEnded =>
        /\ nfsbroker.myCnf.failed # "getConf"
        /\ MapOfEntries(nfsbroker.myCnf.config.sourceOptions,
                        nfsbroker.configYaml.source_params)
        /\ MapOfEntries(nfsbroker.myCnf.config.mountOptions,
                        nfsbroker.configYaml.mount_params)
====
